---- MODULE Spec2Model ----
(***************************************************************************)
(* proto-http-parser: the nom grammar of parser.rs at the level of         *)
(* top-level declarations, the import resolver of NomProtoParser           *)
(* (import_chain, import_cache) and the google.api.http route extractor    *)
(* of extractor.rs.                                                        *)
(*                                                                         *)
(* A source text is a sequence of tokens.  A token is one complete         *)
(* top-level item: a statement, a definition, a comment, or a piece of     *)
(* text no parser of the grammar accepts ("junk").  Whitespace after a     *)
(* statement or definition is always skipped by the grammar (multispace0)  *)
(* and is not represented; whitespace after a comment is not skipped by    *)
(* many0(comment) and is the token's ws flag.  Text values (path           *)
(* templates, body fields) are sequences of one-character strings; names   *)
(* are strings.  An optional value is the empty sequence (None) or a       *)
(* one-element sequence (Some).                                            *)
(***************************************************************************)
EXTENDS Naturals, Integers, Sequences, FiniteSets, TLC

\* ------------------------------------------------------------------ bounds
\* longest source text, in tokens
MaxTokens == 3
\* most fields of a message literal in a drawn google.api.http option
MaxFields == 2
\* most import statements of a file on disk
MaxImports == 2

\* characters of a drawn path template
MaxPathLen == 4

\* rpc methods of a drawn ProtoFile
MaxMethods == 2

\* routes of a drawn route list
MaxRoutes == 2

\* ----------------------------------------------------------------- helpers
None == <<>>

Some(x) == <<x>>

IsSome(o) == Len(o) > 0

Last(s) == s[Len(s)]

Front(s) == SubSeq(s, 1, Len(s) - 1)

RECURSIVE SeqsUpTo(_, _)
\* all sequences over S of length at most n
SeqsUpTo(S, n) ==
    IF n = 0 THEN {<<>>}
    ELSE LET shorter == SeqsUpTo(S, n - 1)
         IN  shorter \cup {Append(s, x) : s \in {t \in shorter : Len(t) = n - 1}, x \in S}

\* the enumerations of a finite set: the orders a HashMap may iterate it in
Perms(S) ==
    {p \in [1..Cardinality(S) -> S] : \A i, j \in 1..Cardinality(S) : p[i] = p[j] => i = j}

\* ------------------------------------------------------------ option values
StringValue(chars) == [t |-> "String", s |-> chars, f |-> <<>>]

NumberValue == [t |-> "Number", s |-> <<>>, f |-> <<>>]

\* a message literal as written: the fields in source order, <<key, value>>
LiteralValue(fields) == [t |-> "MessageLiteral", s |-> <<>>, f |-> fields]

VerbKeys == {"get", "post", "put", "patch", "delete"}

\* HttpMethod: a standard verb, or Custom(name)
Std(v) == [v |-> v, name |-> <<>>]

Custom(name) == [v |-> "Custom", name |-> name]

VerbMethod(key) ==
    CASE key = "get" -> Std("Get")
      [] key = "post" -> Std("Post")
      [] key = "put" -> Std("Put")
      [] key = "patch" -> Std("Patch")
      [] key = "delete" -> Std("Delete")

\* fields.into_iter().collect(): a later field replaces an earlier one of its key
LiteralMap(fields) ==
    LET keys == {fields[i][1] : i \in 1..Len(fields)}
        lastAt(k) == CHOOSE i \in 1..Len(fields) :
                        /\ fields[i][1] = k
                        /\ \A j \in 1..Len(fields) : fields[j][1] = k => j <= i
    IN  [k \in keys |-> fields[lastAt(k)][2]]

\* the keys of a map in the order its hasher yields them; ord enumerates a
\* superset of the keys
IterOrder(map, ord) == SelectSeq(ord, LAMBDA k : k \in DOMAIN map)

RECURSIVE AnnotationFold(_, _, _)
\* the loop of parse_http_annotation over the keys in iteration order
AnnotationFold(map, keys, acc) ==
    IF keys = <<>> THEN acc
    ELSE LET k == Head(keys)
             v == map[k]
             next ==
                IF k \in VerbKeys /\ v.t = "String"
                    THEN [acc EXCEPT !.method = Some(VerbMethod(k)), !.path = v.s]
                ELSE IF k = "body" /\ v.t = "String"
                    THEN [acc EXCEPT !.body = Some(v.s)]
                ELSE acc
         IN  AnnotationFold(map, Tail(keys), next)

HttpAnnotation(method, path, body, bindings) ==
    [method |-> method, path |-> path, body |-> body, additional_bindings |-> bindings]

parse_http_annotation(value, ord) ==
    IF value.t = "MessageLiteral"
    THEN LET map == LiteralMap(value.f)
             acc == AnnotationFold(map, IterOrder(map, ord),
                                   [method |-> None, path |-> <<>>, body |-> None])
         IN  IF IsSome(acc.method)
             THEN Some(HttpAnnotation(acc.method[1], acc.path, acc.body, <<>>))
             ELSE None
    ELSE None

\* ------------------------------------------------------------------ tokens
\* the names services and rpc methods are declared under
ServiceNames == << <<"S", "1">>, <<"S", "2">>, <<"S", "3">>, <<"S", "4">> >>

RpcNames == << <<"M", "1">>, <<"M", "2">>, <<"M", "3">>, <<"M", "4">> >>

CommentKinds == {"line_comment", "block_comment"}

DefinitionKinds == {"service", "message", "enum"}

Token(kind, ws, path, methods) ==
    [kind |-> kind, ws |-> ws, path |-> path, methods |-> methods]

Plain(kind) == Token(kind, FALSE, "", <<>>)

\* a comment; ws: whitespace (a blank line, an indentation) follows it
CommentToken(kind, ws) == Token(kind, ws, "", <<>>)

ImportToken(path) == Token("import", FALSE, path, <<>>)

\* rpc declarations of a service as written: name and option statements
RpcSource(name, opts) == [name |-> name, opts |-> opts]

OptionSource(name, value) == [name |-> name, value |-> value]

ServiceToken(methods) == Token("service", FALSE, "", methods)

IsComment(tok) == tok.kind \in CommentKinds

\* ----------------------------------------------------------------- grammar
RECURSIVE SkipInitial(_, _)
\* many0(alt((comment, multispace1))): every leading comment, with or without
\* whitespace around it
SkipInitial(toks, i) ==
    IF i <= Len(toks) /\ IsComment(toks[i]) THEN SkipInitial(toks, i + 1) ELSE i

\* opt(p) for a statement parser p
OptStatement(toks, i, kind) ==
    IF i <= Len(toks) /\ toks[i].kind = kind THEN i + 1 ELSE i

RECURSIVE ManyStatements(_, _, _)
\* many0(terminated(p, multispace0)) for a statement parser p
ManyStatements(toks, i, kind) ==
    IF i <= Len(toks) /\ toks[i].kind = kind
    THEN ManyStatements(toks, i + 1, kind)
    ELSE i

RECURSIVE ManyComments(_, _)
\* many0(comment): stops after a comment that whitespace follows, unless the
\* next token is no comment anyway
ManyComments(toks, i) ==
    IF i <= Len(toks) /\ IsComment(toks[i])
    THEN IF toks[i].ws /\ i < Len(toks) /\ IsComment(toks[i + 1])
         THEN i + 1
         ELSE ManyComments(toks, i + 1)
    ELSE i

\* an rpc_method that stores every option and fills no http_annotation
rpc_method_keep(src, ord) ==
    [name |-> src.name, options |-> src.opts, http_annotation |-> None]

\* the method_options loop of rpc_method: google.api.http is intercepted
rpc_method(src, ord) ==
    LET isHttp(o) == o.name = "google.api.http" \/ o.name = "(google.api.http)"
        https == SelectSeq(src.opts, isHttp)
    IN  [name |-> src.name,
         options |-> SelectSeq(src.opts, LAMBDA o : ~isHttp(o)),
         http_annotation |->
            IF https = <<>> THEN None ELSE parse_http_annotation(Last(https).value, ord)]

\* one top-level definition with its leading comments
Definition(toks, from, at, ord) ==
    [kind |-> toks[at].kind,
     name |-> ServiceNames[1],
     comments |-> SubSeq(toks, from, at - 1),
     methods |-> [m \in 1..Len(toks[at].methods) |-> rpc_method(toks[at].methods[m], ord)]]

RECURSIVE ManyDefinitions(_, _, _, _)
\* many0(terminated(top_level_definition, multispace0)); the result is
\* <<definitions, index of the first token left>>
ManyDefinitions(toks, i, acc, ord) ==
    LET at == ManyComments(toks, i)
    IN  IF at <= Len(toks) /\ toks[at].kind \in DefinitionKinds
        THEN ManyDefinitions(toks, at + 1, Append(acc, Definition(toks, i, at, ord)), ord)
        ELSE <<acc, i>>

\* proto_file: <<ProtoFile, remaining input>>
proto_file(toks, ord) ==
    LET i0 == SkipInitial(toks, 1)
        i1 == OptStatement(toks, i0, "syntax")
        i2 == OptStatement(toks, i1, "package")
        i3 == ManyStatements(toks, i2, "import")
        i4 == ManyStatements(toks, i3, "option")
        defs == ManyDefinitions(toks, i4, <<>>, ord)
        ofKind(k) == SelectSeq(defs[1], LAMBDA d : d.kind = k)
    IN  <<[syntax |-> i1 > i0,
           package |-> i2 > i1,
           imports |-> [k \in 1..(i3 - i2) |-> toks[i2 + k - 1].path],
           options |-> i4 - i3,
           services |-> ofKind("service"),
           messages |-> ofKind("message"),
           enums |-> ofKind("enum")],
          SubSeq(toks, defs[2], Len(toks))>>

Ok(file) == [ok |-> TRUE, file |-> Some(file), err |-> "", cycle |-> <<>>]

Err(kind) == [ok |-> FALSE, file |-> None, err |-> kind, cycle |-> <<>>]

\* the check of parse_content on what proto_file left: empty after trim(), or
\* starting with a comment marker
TrailingAccepted(remaining) ==
    remaining = <<>> \/ IsComment(remaining[1])

\* parse_content up to import resolution
ParseGrammar(toks, ord) ==
    LET r == proto_file(toks, ord)
    IN  IF TrailingAccepted(r[2]) THEN Ok(r[1]) ELSE Err("InvalidSyntax")

\* ------------------------------------------------------- the file system
\* import paths written in the files
FileNames == {"a.proto", "b.proto"}

GoogleApiImport == "google/api/annotations.proto"

ImportPaths == FileNames \cup {GoogleApiImport}

\* a resolver that skips no import
StartsWithGoogleApi_never(path) == FALSE

\* import.path.starts_with("google/api/")
StartsWithGoogleApi(path) == path = GoogleApiImport

\* config.include_paths, in configured order
include_paths == <<"inc1", "inc2">>

\* the spellings a caller may use for a directory; "inc1/." names inc1
DirSpellings == {"inc1", "inc1/.", "inc2"}

\* include_path.join(import_path)
Join(dir, name) == <<dir, name>>

\* path.canonicalize()
canonicalize(path) == <<IF path[1] = "inc1/." THEN "inc1" ELSE path[1], path[2]>>

\* a copy of the annotations file in the first include directory
GoogleApiFile == Join("inc1", GoogleApiImport)

CanonPaths == {Join(d, n) : d \in {"inc1", "inc2"}, n \in ImportPaths}

UserPaths == {Join(d, n) : d \in DirSpellings, n \in FileNames}

NoFile == [exists |-> FALSE, content |-> <<>>]

File(content) == [exists |-> TRUE, content |-> content]

\* cfg!(test): the library is not built for its unit tests
CfgTest == FALSE

VARIABLES
    fs,         \* the files on disk: canonical path -> NoFile or File(content)
    content,    \* the source text handed to parse_content
    stack,      \* the parse_content activations in progress, innermost last
    import_chain,
    import_cache,
    ret,        \* what the last finished parse call of the user returned; NoRet
                \* after clear_cache, which returns nothing
    lastCall,   \* the parse_file call entered in the last step, if any: its
                \* canonical path, its depth, and its result if it returned at once
    lastDone,   \* the parse_content that finished resolving imports in the last step
    runs,       \* grammar runs that accepted the file, per file, since the
                \* last clear_cache
    proto,      \* the ProtoFile handed to extract_routes
    extracted,  \* what extract_routes returned for it
    config,     \* the ExtractorConfig of the extractor
    routes_in,  \* the routes handed to validate_annotations
    validated,  \* what validate_annotations returned for them
    template,   \* the string handed to validate_path_template
    checked,    \* what validate_path_template returned for it
    enum_src,   \* the enum value declaration handed to enum_value
    enum_val,   \* what enum_value returned for it
    proto_paths,    \* the paths handed to process_files
    batch_pos,      \* the index of the path the loop of process_files is at
    processing,     \* a process_file call of that loop is in progress
    results,        \* BatchProcessResult.results so far: path -> ProcessResult
    errors,         \* BatchProcessResult.errors so far: <<path, error>>
    batch_ret,      \* what process_files returned
    engine_checked, \* what ValidationEngine::validate_path_template returned
    brace_counts,   \* the values of brace_count after each character the loops of
                    \* the two validate_path_template went past
    fresh_parser    \* what the parse_with_imports call of the user did on the parser
                    \* it built, until the user's next parse_file or parse_content call

vars ==
    <<fs, content, stack, import_chain, import_cache, ret, lastCall, lastDone, runs,
      proto, extracted, config, routes_in, validated, template, checked,
      enum_src, enum_val,
      proto_paths, batch_pos, processing, results, errors, batch_ret, engine_checked, brace_counts,
      fresh_parser>>

parserVars == <<fs, content, stack, import_chain, import_cache, ret, lastCall, lastDone, runs>>

extractorVars == <<proto, extracted, config, routes_in, validated, template, checked>>

enumVars == <<enum_src, enum_val>>

coordinatorVars == <<proto_paths, batch_pos, processing, results, errors, batch_ret>>

engineVars == <<engine_checked, brace_counts>>

freshVars == <<fresh_parser>>

\* the counter of grammar runs saturates here
RunsCap == 2

NoCall == [canon |-> None, depth |-> 0, res |-> None]

NoDone == [canon |-> None, file |-> None, res |-> None, log |-> <<>>]

Frame(canon, file) == [canon |-> canon, file |-> file, idx |-> 1, log |-> <<>>, abort |-> None]

\* the parse_file calls in progress
FileDepth(st) == Cardinality({i \in 1..Len(st) : IsSome(st[i].canon)})

CircularImport(cycle) == [ok |-> FALSE, file |-> None, err |-> "CircularImport", cycle |-> cycle]

\* a cycle check that never finds the path
OnChain_never(canon) == FALSE

\* a cycle check that looks at the importing file only
OnChain_last(canon) == import_chain # <<>> /\ Last(import_chain) = canon

\* import_chain.contains(&canonical_path)
OnChain(canon) == \E i \in 1..Len(import_chain) : import_chain[i] = canon

\* a cache that is never consulted
Cached_never(canon) == FALSE

\* import_cache.get(&canonical_path) is Some
Cached(canon) == IsSome(import_cache[canon])

\* the keys of the message literals of a text: what its HashMaps hold
LiteralKeys(toks) ==
    UNION {UNION {UNION {{o.value.f[k][1] : k \in 1..Len(o.value.f)}
                         : o \in {toks[i].methods[m].opts[x] : x \in 1..Len(toks[i].methods[m].opts)}}
                  : m \in 1..Len(toks[i].methods)}
           : i \in 1..Len(toks)}

\* resolve_imports runs for a parsed file
ResolvesImports(file) == file.imports # <<>> /\ ~CfgTest

\* a match that hands a circular import to the caller
ContinuesAfter_circular(res) == ~(res.err = "CircularImport")

\* a match that hands the error of a failed import to the caller
ContinuesAfter_propagate(res) == res.ok

\* the match of resolve_imports on the result of resolve_single_import: both
\* arms go on to the next import
ContinuesAfter(res) == TRUE

\* parser.max_import_depth as configured here: the smallest value that
\* validate accepts
max_import_depth == 1

\* ProtoHttpParserConfig::validate on parser.max_import_depth
ValidImportDepth(depth) == ~(depth = 0) /\ ~(depth > 100)

\* a parse_file that refuses to go deeper than max_import_depth
parse_file_limited(path, ord) ==
    LET canon == canonicalize(path)
        base == [canon |-> canon, now |-> None, frame |-> None, parsed |-> FALSE]
    IN  IF ~fs[canon].exists
            THEN [base EXCEPT !.now = Some(Err("FileNotFound"))]
        ELSE IF Len(import_chain) >= max_import_depth
            THEN [base EXCEPT !.now = Some(Err("ImportDepthExceeded"))]
        ELSE IF \E i \in 1..Len(import_chain) : import_chain[i] = canon
            THEN [base EXCEPT !.now = Some(CircularImport(Append(import_chain, canon)))]
        ELSE IF IsSome(import_cache[canon])
            THEN [base EXCEPT !.now = Some(Ok(import_cache[canon][1]))]
        ELSE LET g == ParseGrammar(fs[canon].content, ord)
             IN  IF ~g.ok
                     THEN [base EXCEPT !.now = Some(g), !.parsed = TRUE]
                 ELSE IF ResolvesImports(g.file[1])
                     THEN [base EXCEPT !.frame = Some(Frame(Some(canon), g.file[1])),
                                       !.parsed = TRUE]
                 ELSE [base EXCEPT !.now = Some(g), !.parsed = TRUE]

\* parse_file up to the point where parse_content resolves imports.
\*   now: the result, when the call returns without resolving imports
\*   frame: the activation to push, when it goes on to resolve imports
parse_file(path, ord) ==
    LET canon == canonicalize(path)
        base == [canon |-> canon, now |-> None, frame |-> None, parsed |-> FALSE]
    IN  IF ~fs[canon].exists
            THEN [base EXCEPT !.now = Some(Err("FileNotFound"))]
        ELSE IF OnChain(canon)
            THEN [base EXCEPT !.now = Some(CircularImport(Append(import_chain, canon)))]
        ELSE IF Cached(canon)
            THEN [base EXCEPT !.now = Some(Ok(import_cache[canon][1]))]
        ELSE LET g == ParseGrammar(fs[canon].content, ord)
             IN  IF ~g.ok
                     THEN [base EXCEPT !.now = Some(g), !.parsed = TRUE]
                 ELSE IF ResolvesImports(g.file[1])
                     THEN [base EXCEPT !.frame = Some(Frame(Some(canon), g.file[1])),
                                       !.parsed = TRUE]
                 ELSE [base EXCEPT !.now = Some(g), !.parsed = TRUE]

\* a parse_file that caches a file without declarations for a parse that failed
Inserted_failures(cache, canon, res) ==
    [cache EXCEPT ![canon] = IF res.ok THEN res.file ELSE Some(proto_file(<<>>, <<>>)[1])]

\* if let Ok(ref proto_file) = result { import_cache.insert(canonical_path, ..) }
Inserted(cache, canon, res) ==
    IF res.ok THEN [cache EXCEPT ![canon] = res.file] ELSE cache

\* a parse_file that forgets to remove its path
Popped_forgotten(chain) == chain

\* import_chain.borrow_mut().pop()
Popped(chain) == Front(chain)

\* the state a parse_file call leaves when it returns at once or descends
ApplyCall(call, callers) ==
    /\ runs' = IF call.parsed /\ (IsSome(call.frame) \/ call.now[1].ok)
               THEN [runs EXCEPT ![call.canon] = IF @ < RunsCap THEN @ + 1 ELSE @]
               ELSE runs
    /\ import_cache' = IF call.parsed /\ IsSome(call.now)
                       THEN Inserted(import_cache, call.canon, call.now[1])
                       ELSE import_cache
    /\ import_chain' = IF IsSome(call.frame) THEN Append(import_chain, call.canon)
                       ELSE IF call.parsed THEN Popped(Append(import_chain, call.canon))
                       ELSE import_chain
    /\ lastCall' = [canon |-> Some(call.canon), depth |-> FileDepth(callers) + 1,
                    res |-> call.now]

\* resolve_imports moves past import idx of the innermost activation with
\* the given outcome
Advance(st, path, res) ==
    LET top == Last(st)
        entry == [path |-> path, outcome |-> res]
    IN  Append(Front(st),
               IF ContinuesAfter(res)
               THEN [top EXCEPT !.idx = @ + 1, !.log = Append(@, entry)]
               ELSE [top EXCEPT !.log = Append(@, entry), !.abort = Some(res)])

Skipped == [ok |-> TRUE, file |-> None, err |-> "skipped", cycle |-> <<>>]

\* a lookup that prefers the directory configured last
FirstHit_last(name) ==
    LET hits == {k \in 1..Len(include_paths) : fs[canonicalize(Join(include_paths[k], name))].exists}
    IN  IF hits = {} THEN None
        ELSE Some(Join(include_paths[CHOOSE k \in hits : \A h \in hits : k >= h], name))

\* resolve_single_import: the first include directory where the file exists
FirstHit(name) ==
    LET hits == {k \in 1..Len(include_paths) : fs[canonicalize(Join(include_paths[k], name))].exists}
    IN  IF hits = {} THEN None
        ELSE Some(Join(include_paths[CHOOSE k \in hits : \A h \in hits : k <= h], name))

\* resolve_single_import with the include directories of a given parser
FirstHitIn(dirs, name) ==
    LET hits == {k \in 1..Len(dirs) : fs[canonicalize(Join(dirs[k], name))].exists}
    IN  IF hits = {} THEN None
        ELSE Some(Join(dirs[CHOOSE k \in hits : \A h \in hits : k <= h], name))

\* a parse_with_imports that builds its parser on the cache of the caller
NewParser_shared ==
    [import_chain |-> <<>>,
     import_cache |-> import_cache,
     parses |-> [p \in CanonPaths |-> 0]]

\* Self::with_config(config): a parser with an empty chain and an empty cache;
\* parses counts the grammar runs on each file
NewParser ==
    [import_chain |-> <<>>,
     import_cache |-> [p \in CanonPaths |-> None],
     parses |-> [p \in CanonPaths |-> 0]]

RECURSIVE parse_file_on(_, _, _, _)
RECURSIVE resolve_imports_on(_, _, _, _, _)
RECURSIVE parse_content_on(_, _, _, _, _)

\* parse_file run to its end on the parser state `on`, whose include
\* directories are dirs: the result and the state the parser is left in
parse_file_on(on, dirs, path, ord) ==
    LET canon == canonicalize(path)
    IN  IF ~fs[canon].exists
            THEN [res |-> Err("FileNotFound"), on |-> on]
        ELSE IF \E i \in 1..Len(on.import_chain) : on.import_chain[i] = canon
            THEN [res |-> CircularImport(Append(on.import_chain, canon)), on |-> on]
        ELSE IF IsSome(on.import_cache[canon])
            THEN [res |-> Ok(on.import_cache[canon][1]), on |-> on]
        ELSE parse_content_on([on EXCEPT !.import_chain = Append(@, canon),
                                         !.parses[canon] = @ + 1],
                              dirs, canon, ParseGrammar(fs[canon].content, ord), ord)

\* parse_file from parse_content on, on the parser state `pushed`; g is what
\* the grammar made of the file
parse_content_on(pushed, dirs, canon, g, ord) ==
    LET resolved == IF g.ok /\ ResolvesImports(g.file[1])
                    THEN resolve_imports_on(pushed, dirs, g.file[1].imports, 1, ord)
                    ELSE pushed
    IN  [res |-> g,
         on |-> [resolved EXCEPT !.import_chain = Popped(@),
                                 !.import_cache = Inserted(@, canon, g)]]

\* the loop of resolve_imports from import k on: the result of every import
\* is dropped
resolve_imports_on(on, dirs, imports, k, ord) ==
    IF k > Len(imports) THEN on
    ELSE IF StartsWithGoogleApi(imports[k])
        THEN resolve_imports_on(on, dirs, imports, k + 1, ord)
    ELSE LET hit == FirstHitIn(dirs, imports[k])
         IN  IF hit = None
                 THEN resolve_imports_on(on, dirs, imports, k + 1, ord)
             ELSE resolve_imports_on(parse_file_on(on, dirs, hit[1], ord).on,
                                     dirs, imports, k + 1, ord)

\* --------------------------------------------------------------- extractor
\* ExtractorConfig::default()
infer_query_params == TRUE

common_query_params ==
    << <<"p", "a", "g", "e">>, <<"l", "i", "m", "i", "t">>, <<"o", "f", "f", "s", "e", "t">>,
       <<"s", "o", "r", "t">>, <<"o", "r", "d", "e", "r">>, <<"f", "i", "l", "t", "e", "r">>,
       <<"s", "e", "a", "r", "c", "h">> >>

validate_http_methods == TRUE

allow_custom_methods == FALSE

Valid == [ok |-> TRUE, err |-> "", message |-> ""]

Invalid(err, message) == [ok |-> FALSE, err |-> err, message |-> message]

RECURSIVE ScanBraces_counting(_, _, _, _)
\* a loop that only counts the braces
ScanBraces_counting(path, i, brace_count, in_param) ==
    IF i > Len(path)
    THEN IF brace_count # 0
         THEN Invalid("InvalidHttpAnnotation", "Unmatched opening brace in path template")
         ELSE Valid
    ELSE IF path[i] = "{"
         THEN ScanBraces_counting(path, i + 1, brace_count + 1, TRUE)
    ELSE IF path[i] = "}"
         THEN IF brace_count - 1 < 0
              THEN Invalid("InvalidHttpAnnotation", "Unmatched closing brace in path template")
              ELSE ScanBraces_counting(path, i + 1, brace_count - 1, FALSE)
    ELSE ScanBraces_counting(path, i + 1, brace_count, in_param)

RECURSIVE ScanBraces(_, _, _, _)
\* the loop of validate_path_template over the characters from position i
ScanBraces(path, i, brace_count, in_param) ==
    IF i > Len(path)
    THEN IF brace_count # 0
         THEN Invalid("InvalidHttpAnnotation", "Unmatched opening brace in path template")
         ELSE Valid
    ELSE IF path[i] = "{"
         THEN IF in_param
              THEN Invalid("InvalidHttpAnnotation", "Nested braces are not allowed in path template")
              ELSE ScanBraces(path, i + 1, brace_count + 1, TRUE)
    ELSE IF path[i] = "}"
         THEN IF brace_count - 1 < 0
              THEN Invalid("InvalidHttpAnnotation", "Unmatched closing brace in path template")
              ELSE ScanBraces(path, i + 1, brace_count - 1, FALSE)
    ELSE ScanBraces(path, i + 1, brace_count, in_param)

validate_path_template(path) ==
    IF path = <<>>
        THEN Invalid("InvalidHttpAnnotation", "Empty path template")
    ELSE IF path[1] # "/"
        THEN Invalid("InvalidHttpAnnotation", "Path template must start with '/'")
    ELSE ScanBraces(path, 1, 0, FALSE)

RECURSIVE BraceCounts(_, _, _, _)
\* brace_count after each character the loop of validate_path_template goes
\* past, from position i on
BraceCounts(path, i, brace_count, in_param) ==
    IF i > Len(path) THEN <<>>
    ELSE IF path[i] = "{"
         THEN IF in_param THEN <<>>
              ELSE <<brace_count + 1>> \o BraceCounts(path, i + 1, brace_count + 1, TRUE)
    ELSE IF path[i] = "}"
         THEN IF brace_count - 1 < 0 THEN <<>>
              ELSE <<brace_count - 1>> \o BraceCounts(path, i + 1, brace_count - 1, FALSE)
    ELSE <<brace_count>> \o BraceCounts(path, i + 1, brace_count, in_param)

BraceCountsOf(path) ==
    IF path = <<>> \/ path[1] # "/" THEN <<>> ELSE BraceCounts(path, 1, 0, FALSE)

\* ------------------------------------------------------ validation engine
RECURSIVE EngineScan_unchecked(_, _, _)
\* a loop that lets a closing brace without an opening one pass
EngineScan_unchecked(path, i, brace_count) ==
    IF i > Len(path)
    THEN IF brace_count # 0
         THEN Invalid("InvalidHttpAnnotation", "Unmatched opening brace in path template")
         ELSE Valid
    ELSE IF path[i] = "{"
         THEN IF brace_count + 1 > 1
              THEN Invalid("InvalidHttpAnnotation", "Nested braces are not allowed in path templates")
              ELSE EngineScan_unchecked(path, i + 1, brace_count + 1)
    ELSE IF path[i] = "}"
         THEN EngineScan_unchecked(path, i + 1, brace_count - 1)
    ELSE EngineScan_unchecked(path, i + 1, brace_count)

RECURSIVE EngineScan(_, _, _)
\* the loop of ValidationEngine::validate_path_template over the characters
\* from position i
EngineScan(path, i, brace_count) ==
    IF i > Len(path)
    THEN IF brace_count # 0
         THEN Invalid("InvalidHttpAnnotation", "Unmatched opening brace in path template")
         ELSE Valid
    ELSE IF path[i] = "{"
         THEN IF brace_count + 1 > 1
              THEN Invalid("InvalidHttpAnnotation", "Nested braces are not allowed in path templates")
              ELSE EngineScan(path, i + 1, brace_count + 1)
    ELSE IF path[i] = "}"
         THEN IF brace_count = 0
              THEN Invalid("InvalidHttpAnnotation", "Unmatched closing brace in path template")
              ELSE EngineScan(path, i + 1, brace_count - 1)
    ELSE EngineScan(path, i + 1, brace_count)

\* ValidationEngine::validate_path_template
engine_validate_path_template(path) ==
    IF path = <<>>
        THEN Invalid("InvalidHttpAnnotation", "Path template cannot be empty")
    ELSE IF path[1] # "/"
        THEN Invalid("InvalidHttpAnnotation", "Path template must start with '/'")
    ELSE EngineScan(path, 1, 0)

RECURSIVE EngineBraceCounts(_, _, _)
\* brace_count after each character the loop of the engine goes past
EngineBraceCounts(path, i, brace_count) ==
    IF i > Len(path) THEN <<>>
    ELSE IF path[i] = "{"
         THEN IF brace_count + 1 > 1 THEN <<>>
              ELSE <<brace_count + 1>> \o EngineBraceCounts(path, i + 1, brace_count + 1)
    ELSE IF path[i] = "}"
         THEN IF brace_count = 0 THEN <<>>
              ELSE <<brace_count - 1>> \o EngineBraceCounts(path, i + 1, brace_count - 1)
    ELSE <<brace_count>> \o EngineBraceCounts(path, i + 1, brace_count)

EngineBraceCountsOf(path) ==
    IF path = <<>> \/ path[1] # "/" THEN <<>> ELSE EngineBraceCounts(path, 1, 0)

\* the positions of "}" after position p
ClosersAfter(path, p) == {q \in (p + 1)..Len(path) : path[q] = "}"}

Least(S) == CHOOSE x \in S : \A y \in S : x <= y

\* the regex \{([^}]+)\} matches at p: "{", one or more characters other
\* than "}", then "}"
MatchesAt(path, p) ==
    /\ path[p] = "{"
    /\ ClosersAfter(path, p) # {}
    /\ Least(ClosersAfter(path, p)) > p + 1

RECURSIVE Captures(_, _)
\* path_param_regex.captures_iter: group 1 of the leftmost non-overlapping
\* matches from position i on
Captures(path, i) ==
    LET starts == {p \in i..Len(path) : MatchesAt(path, p)}
    IN  IF starts = {} THEN <<>>
        ELSE LET p == Least(starts)
                 q == Least(ClosersAfter(path, p))
             IN  <<SubSeq(path, p + 1, q - 1)>> \o Captures(path, q + 1)

\* param_name.replace('.', "_")
normalize_parameter_name(name) == [k \in 1..Len(name) |-> IF name[k] = "." THEN "_" ELSE name[k]]

\* str::to_lowercase on the characters of the model
Lowercase(text) ==
    [k \in 1..Len(text) |-> CASE text[k] = "I" -> "i" [] text[k] = "D" -> "d" [] OTHER -> text[k]]

Contains(text, pat) ==
    \E k \in 0..(Len(text) - Len(pat)) : SubSeq(text, k + 1, k + Len(pat)) = pat

EndsWith(text, pat) ==
    Len(text) >= Len(pat) /\ SubSeq(text, Len(text) - Len(pat) + 1, Len(text)) = pat

infer_parameter_type(param_name) ==
    LET name == Lowercase(param_name)
    IN  IF EndsWith(name, <<"_", "i", "d">>) \/ name = <<"i", "d">> THEN "String"
        ELSE IF \/ Contains(name, <<"c", "o", "u", "n", "t">>)
                \/ Contains(name, <<"s", "i", "z", "e">>)
                \/ Contains(name, <<"l", "i", "m", "i", "t">>) THEN "Integer"
        ELSE IF \/ Contains(name, <<"r", "a", "t", "e">>)
                \/ Contains(name, <<"r", "a", "t", "i", "o">>) THEN "Float"
        ELSE IF \/ Contains(name, <<"e", "n", "a", "b", "l", "e", "d">>)
                \/ Contains(name, <<"a", "c", "t", "i", "v", "e">>) THEN "Boolean"
        ELSE "String"

\* PathParameter::new
PathParameter(name, param_type) == [name |-> name, param_type |-> param_type, required |-> TRUE]

\* QueryParameter::optional
QueryParameterOptional(name, param_type) ==
    [name |-> name, param_type |-> param_type, required |-> FALSE]

\* Ok(parameters), or the error of the first capture with an empty name
extract_path_parameters(path) ==
    LET caps == Captures(path, 1)
    IN  IF \E k \in 1..Len(caps) : caps[k] = <<>>
        THEN [ok |-> FALSE, err |-> "InvalidPathParameter", params |-> <<>>]
        ELSE [ok |-> TRUE, err |-> "",
              params |-> [k \in 1..Len(caps) |->
                            LET name == normalize_parameter_name(caps[k])
                            IN  PathParameter(name, infer_parameter_type(name))]]

extract_query_parameters ==
    IF ~infer_query_params THEN <<>>
    ELSE [k \in 1..Len(common_query_params) |->
            QueryParameterOptional(common_query_params[k],
                                   infer_parameter_type(common_query_params[k]))]

\* RequestBody::entire_message()
EntireMessage == [field |-> None, content_type |-> "application/json", is_entire_message |-> TRUE]

\* RequestBody::field(name)
BodyField(name) == [field |-> Some(name), content_type |-> "application/json", is_entire_message |-> FALSE]

HasBodyVerbs == {"Post", "Put", "Patch"}

\* a body only where the annotation names one
determine_request_body_explicit(annotation) ==
    IF annotation.method.v \in {"Post", "Put", "Patch"} /\ IsSome(annotation.body)
    THEN IF annotation.body = Some(<<"*">>) THEN Some(EntireMessage)
         ELSE Some(BodyField(annotation.body[1]))
    ELSE None

determine_request_body(annotation) ==
    IF annotation.method.v \in HasBodyVerbs
    THEN IF annotation.body = Some(<<"*">>) THEN Some(EntireMessage)
         ELSE IF IsSome(annotation.body) THEN Some(BodyField(annotation.body[1]))
         ELSE Some(EntireMessage)
    ELSE None

\* the request body of a route built from an additional binding
BindingRequestBody(binding) ==
    IF IsSome(binding.body)
    THEN IF binding.body = Some(<<"*">>) THEN Some(EntireMessage)
         ELSE Some(BodyField(binding.body[1]))
    ELSE None

HttpBinding(method, path, body) == [method |-> method, path |-> path, body |-> body]

\* Result<Option<HttpAnnotation>, ValidationError>
Found(annotation) == [ok |-> TRUE, err |-> "", message |-> "", annotation |-> annotation]

Failed(err, message) ==
    [ok |-> FALSE, err |-> err, message |-> message, annotation |-> None]

\* parse_additional_bindings: not implemented, no binding is decoded
parse_additional_bindings(value) == <<>>

RECURSIVE HttpOptionFold(_, _, _)
\* the loop of parse_http_option over the keys in iteration order
HttpOptionFold(map, keys, acc) ==
    IF keys = <<>> THEN acc
    ELSE LET k == Head(keys)
             v == map[k]
             next ==
                IF k \in VerbKeys /\ v.t = "String"
                    THEN [acc EXCEPT !.method = Some(VerbMethod(k)), !.path = Some(v.s)]
                ELSE IF k = "body" /\ v.t = "String"
                    THEN [acc EXCEPT !.body = Some(v.s)]
                ELSE IF k = "additional_bindings"
                    THEN [acc EXCEPT !.bindings = parse_additional_bindings(v)]
                ELSE acc
         IN  HttpOptionFold(map, Tail(keys), next)

parse_http_option(value, ord) ==
    IF value.t = "MessageLiteral"
    THEN LET map == LiteralMap(value.f)
             acc == HttpOptionFold(map, IterOrder(map, ord),
                        [method |-> None, path |-> None, body |-> None, bindings |-> <<>>])
         IN  IF IsSome(acc.method) /\ IsSome(acc.path)
             THEN Found(Some(HttpAnnotation(acc.method[1], acc.path[1], acc.body, acc.bindings)))
             ELSE Failed("InvalidHttpAnnotation", "Missing HTTP method or path")
    ELSE Failed("InvalidHttpAnnotation", "Invalid HTTP annotation format")

\* a lookup that reads the options before the http_annotation field
extract_http_annotation_options_first(method, ord) ==
    LET https == SelectSeq(method.options, LAMBDA o : o.name = "google.api.http")
    IN  IF https # <<>> THEN parse_http_option(https[1].value, ord)
        ELSE Found(method.http_annotation)

extract_http_annotation(method, ord) ==
    IF IsSome(method.http_annotation) THEN Found(method.http_annotation)
    ELSE LET https == SelectSeq(method.options, LAMBDA o : o.name = "google.api.http")
         IN  IF https = <<>> THEN Found(None) ELSE parse_http_option(https[1].value, ord)

HttpRoute(service, method, http_method, path, params, body) ==
    [service_name |-> service.name,
     method_name |-> method.name,
     http_method |-> http_method,
     path_template |-> path,
     path_parameters |-> params,
     query_parameters |-> extract_query_parameters,
     request_body |-> body]

Routes(routes) == [ok |-> TRUE, err |-> "", message |-> "", routes |-> routes]

NoRoutes(err, message) == [ok |-> FALSE, err |-> err, message |-> message, routes |-> <<>>]

\* a loop that emits no route for the additional bindings
BindingRoutes_dropped(service, method, bindings, k) == Routes(<<>>)

RECURSIVE BindingRoutes(_, _, _, _)
\* the loop of extract_routes over the additional bindings from index k
BindingRoutes(service, method, bindings, k) ==
    IF k > Len(bindings) THEN Routes(<<>>)
    ELSE LET b == bindings[k]
             valid == validate_path_template(b.path)
             params == extract_path_parameters(b.path)
             rest == BindingRoutes(service, method, bindings, k + 1)
         IN  IF ~valid.ok THEN NoRoutes(valid.err, valid.message)
             ELSE IF ~params.ok THEN NoRoutes(params.err, "")
             ELSE IF ~rest.ok THEN rest
             ELSE Routes(<<HttpRoute(service, method, b.method, b.path, params.params,
                                     BindingRequestBody(b))>> \o rest.routes)

\* the body of the loops of extract_routes for one method
MethodRoutes(service, method, ord) ==
    LET found == extract_http_annotation(method, ord)
    IN  IF ~found.ok THEN NoRoutes(found.err, found.message)
        ELSE IF found.annotation = None THEN Routes(<<>>)
        ELSE LET a == found.annotation[1]
                 valid == validate_path_template(a.path)
                 params == extract_path_parameters(a.path)
                 more == BindingRoutes(service, method, a.additional_bindings, 1)
             IN  IF ~valid.ok THEN NoRoutes(valid.err, valid.message)
                 ELSE IF ~params.ok THEN NoRoutes(params.err, "")
                 ELSE IF ~more.ok THEN more
                 ELSE Routes(<<HttpRoute(service, method, a.method, a.path, params.params,
                                         determine_request_body(a))>> \o more.routes)

RECURSIVE RoutesFrom_partial(_, _, _, _)
\* loops that skip a failing method and go on
RoutesFrom_partial(file, s, m, ord) ==
    IF s > Len(file.services) THEN Routes(<<>>)
    ELSE IF m > Len(file.services[s].methods) THEN RoutesFrom_partial(file, s + 1, 1, ord)
    ELSE LET here == MethodRoutes(file.services[s], file.services[s].methods[m], ord)
             rest == RoutesFrom_partial(file, s, m + 1, ord)
         IN  IF ~here.ok THEN rest
             ELSE IF ~rest.ok THEN rest
             ELSE Routes(here.routes \o rest.routes)

RECURSIVE RoutesFrom(_, _, _, _)
\* the loops of extract_routes from method m of service s on: the first error
\* ends them
RoutesFrom(file, s, m, ord) ==
    IF s > Len(file.services) THEN Routes(<<>>)
    ELSE IF m > Len(file.services[s].methods) THEN RoutesFrom(file, s + 1, 1, ord)
    ELSE LET here == MethodRoutes(file.services[s], file.services[s].methods[m], ord)
             rest == RoutesFrom(file, s, m + 1, ord)
         IN  IF ~here.ok THEN here
             ELSE IF ~rest.ok THEN rest
             ELSE Routes(here.routes \o rest.routes)

extract_routes(file, ord) == RoutesFrom(file, 1, 1, ord)

\* HttpMethod::as_str
as_str(method) ==
    CASE method.v = "Get" -> <<"G", "E", "T">>
      [] method.v = "Post" -> <<"P", "O", "S", "T">>
      [] method.v = "Put" -> <<"P", "U", "T">>
      [] method.v = "Patch" -> <<"P", "A", "T", "C", "H">>
      [] method.v = "Delete" -> <<"D", "E", "L", "E", "T", "E">>
      [] method.v = "Custom" -> method.name

\* format!("{} {}", route.http_method.as_str(), route.path_template)
Signature(route) == as_str(route.http_method) \o <<" ">> \o route.path_template

RECURSIVE ConflictScan(_, _, _)
\* the loop of check_route_conflicts from route k on, with the signatures
\* inserted so far
ConflictScan(rs, k, route_signatures) ==
    IF k > Len(rs) THEN Valid
    ELSE IF Signature(rs[k]) \in route_signatures
         THEN Invalid("ConflictingRoutes", "")
         ELSE ConflictScan(rs, k + 1, route_signatures \cup {Signature(rs[k])})

check_route_conflicts(rs) == ConflictScan(rs, 1, {})

\* the body of the loop of validate_annotations for one route
RouteCheck(route, cfg) ==
    IF /\ cfg.validate_http_methods
       /\ route.http_method.v \in {"Get", "Delete"}
       /\ IsSome(route.request_body)
        THEN Invalid("InvalidHttpAnnotation", "methods should not have request bodies")
    ELSE IF /\ cfg.validate_http_methods
            /\ route.http_method.v = "Custom"
            /\ ~cfg.allow_custom_methods
        THEN Invalid("InvalidHttpAnnotation", "Custom HTTP methods are not allowed")
    ELSE validate_path_template(route.path_template)

RECURSIVE RouteChecks(_, _, _)
\* the loop of validate_annotations from route k on: the first error ends it
RouteChecks(rs, k, cfg) ==
    IF k > Len(rs) THEN Valid
    ELSE IF ~RouteCheck(rs[k], cfg).ok THEN RouteCheck(rs[k], cfg)
    ELSE RouteChecks(rs, k + 1, cfg)

validate_annotations(rs, cfg) ==
    IF ~check_route_conflicts(rs).ok THEN check_route_conflicts(rs)
    ELSE RouteChecks(rs, 1, cfg)

\* -------------------------------------------------------------- enum values
\* i32::MAX
I32_MAX == 2147483647

RECURSIVE ParseDigits(_, _)
\* digits.parse::<i32>(): a checked multiply and a checked add per digit,
\* None when one of them overflows
ParseDigits(digits, acc) ==
    IF digits = <<>> THEN Some(acc)
    ELSE IF acc > I32_MAX \div 10 THEN None
    ELSE IF acc * 10 > I32_MAX - Head(digits) THEN None
    ELSE ParseDigits(Tail(digits), acc * 10 + Head(digits))

\* enum_number: opt(char('-')), digit1, parse().unwrap_or(0), then the sign;
\* None when digit1 finds no digit
enum_number(neg, digits) ==
    IF digits = <<>> THEN None
    ELSE LET number == IF IsSome(ParseDigits(digits, 0)) THEN ParseDigits(digits, 0)[1] ELSE 0
         IN  Some(IF neg THEN 0 - number ELSE number)

\* enum_value on 'NAME = n;'
enum_value(src) ==
    LET number == enum_number(src.neg, src.digits)
    IN  IF IsSome(number)
        THEN [ok |-> TRUE, name |-> src.name, number |-> number[1]]
        ELSE [ok |-> FALSE, name |-> "", number |-> 0]

\* ------------------------------------------------------------------ inputs
TopTokens ==
    {Plain(k) : k \in {"syntax", "package", "option", "message", "enum", "junk"}}
    \cup {ImportToken(p) : p \in {"a.proto", GoogleApiImport}}
    \cup {CommentToken(k, w) : k \in CommentKinds, w \in BOOLEAN}
    \cup {ServiceToken(<<RpcSource(RpcNames[1], <<>>)>>)}

TokenTexts == SeqsUpTo(TopTokens, MaxTokens)

DrawnKeys == {"get", "post", "body", "other"}

DrawnValues == {StringValue(<<"/", "a">>), StringValue(<<"/", "b">>), NumberValue}

\* a service whose one rpc carries a google.api.http message literal
RpcTexts ==
    {<<Plain("syntax"),
       ServiceToken(<<RpcSource(RpcNames[1], <<OptionSource("google.api.http", LiteralValue(f))>>)>>)>>
        : f \in SeqsUpTo(DrawnKeys \X DrawnValues, MaxFields)}

\* services whose rpcs carry other options too, or a google.api.http option
\* that is no message literal
OptionTexts ==
    {<<Plain("syntax"), ServiceToken(<<RpcSource(RpcNames[1], opts)>>)>>
        : opts \in {<<OptionSource("deprecated", NumberValue),
                      OptionSource("google.api.http",
                                   LiteralValue(<< <<"post", StringValue(<<"/", "a">>)>>,
                                                   <<"body", StringValue(<<"*">>)>> >>))>>,
                    <<OptionSource("google.api.http", StringValue(<<"/", "a">>))>>,
                    <<OptionSource("google.api.http", LiteralValue(<<>>)),
                      OptionSource("deprecated", NumberValue)>>}}
    \cup {<<Plain("syntax"),
            ServiceToken(<<RpcSource(RpcNames[1],
                                     <<OptionSource("google.api.http",
                                                    LiteralValue(<< <<"get", StringValue(<<"/", "a">>)>> >>))>>),
                           RpcSource(RpcNames[2],
                                     <<OptionSource("google.api.http",
                                                    LiteralValue(<< <<"body", StringValue(<<"*">>)>> >>))>>)>>)>>}

\* a definition after the syntax statement and two comments
CommentTexts ==
    {<<Plain("syntax"), CommentToken(k1, w1), CommentToken(k2, w2), d>>
        : k1 \in CommentKinds, w1 \in BOOLEAN, k2 \in CommentKinds, w2 \in BOOLEAN,
          d \in {Plain("message"), Plain("enum"), ServiceToken(<<RpcSource(RpcNames[1], <<>>)>>)}}

ParseInputs == TokenTexts \cup RpcTexts \cup OptionTexts \cup CommentTexts

\* what a file on disk may hold: a malformed declaration, or import statements
FileTexts ==
    {<<Plain("junk")>>}
    \cup {[k \in 1..Len(names) |-> ImportToken(names[k])] : names \in SeqsUpTo(ImportPaths, MaxImports)}

\* what the imported file b.proto may hold
ImportedTexts ==
    {<<Plain("junk")>>, <<>>, <<ImportToken("a.proto")>>, <<ImportToken("b.proto")>>,
     <<ImportToken("a.proto"), ImportToken("b.proto")>>}

\* the second include directory holds at most a copy of a.proto without
\* declarations
Shadowed == Join("inc2", "a.proto")

FileSystems ==
    {[p \in CanonPaths |->
        IF p = Join("inc1", "a.proto") THEN fa
        ELSE IF p = Join("inc1", "b.proto") THEN fb
        ELSE IF p = Shadowed THEN sh
        ELSE IF p = GoogleApiFile THEN ga
        ELSE NoFile]
        : fa \in {NoFile} \cup {File(c) : c \in FileTexts},
          fb \in {NoFile} \cup {File(c) : c \in ImportedTexts},
          sh \in {NoFile, File(<<>>)},
          ga \in {NoFile, File(<<>>)}}

\* the text a user of the import resolver hands to parse_content directly
UserTexts == {<<ImportToken("a.proto"), ImportToken("b.proto")>>}

\* the import_paths a user hands to parse_with_imports
ExtraIncludePaths == {<<"inc2">>}

NoRet == [ok |-> FALSE, file |-> None, err |-> "no call yet", cycle |-> <<>>]

RpcMethod(name, options, annotation) ==
    [name |-> name, options |-> options, http_annotation |-> annotation]

Service(name, methods) == [name |-> name, methods |-> methods]

ProtoFile(services) == [services |-> services]

PathChars == {"/", "{", "}", "a", "."}

PathTemplates == SeqsUpTo(PathChars, MaxPathLen)

\* one annotated method per drawn path template
PathProtos ==
    {ProtoFile(<<Service(<<"S", "1">>, <<RpcMethod(<<"M", "1">>, <<>>,
                    Some(HttpAnnotation(Std("Get"), p, None, <<>>)))>>)>>)
        : p \in PathTemplates}

PathA == <<"/", "a">>

PathB == <<"/", "b">>

PathId == <<"/", "{", "i", "d", "}">>

NoSlash == <<"a">>

Star == <<"*">>

FieldName == <<"f">>

\* annotations populated in the http_annotation field
FieldAnnotations ==
    {HttpAnnotation(Std("Get"), PathA, None, <<>>),
     HttpAnnotation(Std("Get"), PathId, None, <<>>),
     HttpAnnotation(Std("Get"), PathA, Some(Star), <<>>),
     HttpAnnotation(Std("Get"), NoSlash, None, <<>>),
     HttpAnnotation(Std("Post"), PathA, None, <<>>),
     HttpAnnotation(Std("Post"), PathA, Some(Star), <<>>),
     HttpAnnotation(Std("Post"), PathA, Some(FieldName), <<>>),
     HttpAnnotation(Std("Put"), PathA, Some(Star), <<>>),
     HttpAnnotation(Std("Patch"), PathId, None, <<>>),
     HttpAnnotation(Std("Delete"), PathId, None, <<>>),
     HttpAnnotation(Custom(<<"H", "E", "A", "D">>), PathA, None, <<>>)}
    \cup {HttpAnnotation(Std("Get"), PathA, None, <<b>>)
            : b \in {HttpBinding(Std("Get"), PathB, Some(Star)),
                     HttpBinding(Std("Post"), PathB, None),
                     HttpBinding(Std("Post"), PathB, Some(FieldName)),
                     HttpBinding(Std("Delete"), PathId, None),
                     HttpBinding(Std("Get"), NoSlash, None)}}

\* option lists of a method whose http_annotation field is empty
OptionLists ==
    {<<>>,
     <<OptionSource("deprecated", NumberValue)>>,
     <<OptionSource("google.api.http", LiteralValue(<< <<"get", StringValue(PathA)>> >>))>>,
     <<OptionSource("deprecated", NumberValue),
       OptionSource("google.api.http",
                    LiteralValue(<< <<"post", StringValue(PathA)>>, <<"body", StringValue(Star)>> >>))>>,
     <<OptionSource("google.api.http",
                    LiteralValue(<< <<"get", StringValue(PathA)>>,
                                    <<"additional_bindings",
                                      LiteralValue(<< <<"post", StringValue(PathB)>> >>)>> >>))>>,
     <<OptionSource("google.api.http", LiteralValue(<< <<"body", StringValue(Star)>> >>))>>,
     <<OptionSource("google.api.http", StringValue(PathA))>>}

\* methods that carry both representations, which differ
BothShapes ==
    {[options |-> <<OptionSource("google.api.http",
                                 LiteralValue(<< <<"get", StringValue(PathB)>> >>))>>,
      http_annotation |-> Some(HttpAnnotation(Std("Post"), PathA, Some(Star), <<>>))],
     [options |-> <<OptionSource("google.api.http", StringValue(PathA))>>,
      http_annotation |-> Some(HttpAnnotation(Std("Get"), PathA, None, <<>>))]}

MethodShapes ==
    {[options |-> <<>>, http_annotation |-> Some(a)] : a \in FieldAnnotations}
    \cup {[options |-> o, http_annotation |-> None] : o \in OptionLists}
    \cup BothShapes

\* how the methods of a drawn ProtoFile are declared: all in one service under
\* names of their own, each in a service of its own, or all in one service
\* under one name
Layouts == {"one_service", "own_service", "same_name"}

\* the k-th method of a layout, with the name of its service
MethodEntry(layout, shape, k) ==
    [service |-> IF layout = "own_service" THEN ServiceNames[k] ELSE ServiceNames[1],
     method |-> RpcMethod(IF layout = "one_service" THEN RpcNames[k] ELSE RpcNames[1],
                          shape.options, shape.http_annotation)]

RECURSIVE GroupServices(_)
\* the services of a text: consecutive methods of one service name
GroupServices(entries) ==
    IF entries = <<>> THEN <<>>
    ELSE LET e == Head(entries)
             rest == GroupServices(Tail(entries))
         IN  IF rest # <<>> /\ rest[1].name = e.service
             THEN <<Service(e.service, <<e.method>> \o rest[1].methods)>> \o Tail(rest)
             ELSE <<Service(e.service, <<e.method>>)>> \o rest

MethodProtos ==
    {ProtoFile(GroupServices([k \in 1..Len(shapes) |-> MethodEntry(layout, shapes[k], k)]))
        : layout \in Layouts, shapes \in SeqsUpTo(MethodShapes, MaxMethods)}

ExtractInputs == PathProtos \cup MethodProtos

\* the methods of a ProtoFile in declaration order, each with its service
MethodsOf(file) ==
    LET at(s) == [m \in 1..Len(file.services[s].methods) |->
                    [service |-> file.services[s], method |-> file.services[s].methods[m]]]
        upTo[s \in 0..Len(file.services)] == IF s = 0 THEN <<>> ELSE upTo[s - 1] \o at(s)
    IN  upTo[Len(file.services)]

\* the keys of the message literals among the method options of a ProtoFile
OptionKeys(file) ==
    LET ms == MethodsOf(file)
    IN  UNION {UNION {{ms[i].method.options[x].value.f[k][1]
                        : k \in 1..Len(ms[i].method.options[x].value.f)}
                      : x \in 1..Len(ms[i].method.options)}
               : i \in 1..Len(ms)}

\* the longest run of digits drawn in full
MaxDigits == 2

\* 'NAME = n;' as written: the sign and the digits of n
EnumSource(name, neg, digits) == [name |-> name, neg |-> neg, digits |-> digits]

\* the digits of 2147483640 .. 2147483649, around i32::MAX, and of longer runs
BoundaryDigits ==
    {<<2, 1, 4, 7, 4, 8, 3, 6, 4, d>> : d \in 0..9}
    \cup {<<2, 1, 4, 7, 4, 8, 3, 7, 0, 0>>, <<9, 9, 9, 9, 9, 9, 9, 9, 9, 9>>,
          <<1, 0, 0, 0, 0, 0, 0, 0, 0, 0, 0>>, <<0, 2, 1, 4, 7, 4, 8, 3, 6, 4, 8>>}

EnumSources ==
    {EnumSource("UNKNOWN", neg, digits)
        : neg \in BOOLEAN, digits \in SeqsUpTo(0..9, MaxDigits) \cup BoundaryDigits}

NoEnumSource == EnumSource("", FALSE, <<>>)

NotParsed == [ok |-> FALSE, name |-> "no call yet", number |-> 0]

\* the longest list of paths handed to process_files
MaxBatch == 2

\* the paths a user hands to process_files
BatchPaths == {Join("inc1", "a.proto"), Join("inc1/.", "a.proto"), Join("inc1", "b.proto")}

BatchInputs == SeqsUpTo(BatchPaths, MaxBatch)

\* HashMap::new()
NoResults == [p \in {} |-> <<>>]

NotReturned == [ok |-> FALSE, success_count |-> 0, error_count |-> 0]

NotExtracted == [ok |-> FALSE, err |-> "no call yet", message |-> "", routes |-> <<>>]

\* the fields of ExtractorConfig that validate_annotations reads
ExtractorConfig(validate, allow_custom) ==
    [validate_http_methods |-> validate, allow_custom_methods |-> allow_custom]

DefaultConfig == ExtractorConfig(validate_http_methods, allow_custom_methods)

Configs == {ExtractorConfig(v, c) : v, c \in BOOLEAN}

\* method, path template and request body of the drawn routes
RouteShapes ==
    {<<Std("Get"), PathA, None>>,
     <<Std("Get"), PathB, None>>,
     <<Std("Get"), PathA, Some(EntireMessage)>>,
     <<Std("Get"), NoSlash, None>>,
     <<Std("Get"), <<"/", "{", "a">>, None>>,
     <<Std("Post"), PathA, Some(EntireMessage)>>,
     <<Std("Post"), PathA, None>>,
     <<Std("Post"), PathB, Some(BodyField(FieldName))>>,
     <<Std("Put"), PathA, Some(EntireMessage)>>,
     <<Std("Delete"), PathA, None>>,
     <<Std("Delete"), PathA, Some(EntireMessage)>>,
     <<Custom(<<"G", "E", "T">>), PathA, None>>,
     <<Custom(<<"X">>), <<"/", " ", "/">>, None>>,
     <<Custom(<<"X", " ", "/">>), <<"/">>, None>>}

\* the service and the method the drawn routes belong to
RouteOwners ==
    {<<ServiceNames[1], RpcNames[1]>>, <<ServiceNames[2], RpcNames[2]>>}

DrawnRoutes ==
    {HttpRoute(Service(o[1], <<>>), RpcMethod(o[2], <<>>, None), r[1], r[2], <<>>, r[3])
        : o \in RouteOwners, r \in RouteShapes}

RouteLists == SeqsUpTo(DrawnRoutes, MaxRoutes)

NotValidated == [ok |-> FALSE, err |-> "no call yet", message |-> ""]

\* no parse_with_imports call
NoFresh ==
    [called |-> FALSE, canon |-> None, ret |-> NoRet,
     on |-> [import_chain |-> <<>>,
             import_cache |-> [p \in CanonPaths |-> None],
             parses |-> [p \in CanonPaths |-> 0]]]

NoCounts == [extractor |-> <<>>, engine |-> <<>>]

NotChecked == [ok |-> FALSE, err |-> "no call yet", message |-> ""]

\* ----------------------------------------------------------------- actions
InitParser ==
    /\ stack = <<>>
    /\ import_chain = <<>>
    /\ import_cache = [p \in CanonPaths |-> None]
    /\ ret = NoRet
    /\ lastCall = NoCall
    /\ lastDone = NoDone
    /\ runs = [p \in CanonPaths |-> 0]

\* a text parsed in a directory tree without importable files
InitParse ==
    /\ fs = [p \in CanonPaths |-> NoFile]
    /\ content \in ParseInputs
    /\ InitParser
    /\ proto = ProtoFile(<<>>)
    /\ extracted = NotExtracted
    /\ config = DefaultConfig
    /\ routes_in = <<>>
    /\ validated = NotValidated
    /\ template = <<>>
    /\ checked = NotChecked
    /\ enum_src = NoEnumSource
    /\ enum_val = NotParsed
    /\ proto_paths = <<>>
    /\ batch_pos = 1
    /\ processing = FALSE
    /\ results = NoResults
    /\ errors = <<>>
    /\ batch_ret = NotReturned
    /\ engine_checked = NotChecked
    /\ brace_counts = NoCounts
    /\ fresh_parser = NoFresh

InitImports ==
    /\ fs \in FileSystems
    /\ content = <<>>
    /\ InitParser
    /\ proto = ProtoFile(<<>>)
    /\ extracted = NotExtracted
    /\ config = DefaultConfig
    /\ routes_in = <<>>
    /\ validated = NotValidated
    /\ template = <<>>
    /\ checked = NotChecked
    /\ enum_src = NoEnumSource
    /\ enum_val = NotParsed
    /\ proto_paths = <<>>
    /\ batch_pos = 1
    /\ processing = FALSE
    /\ results = NoResults
    /\ errors = <<>>
    /\ batch_ret = NotReturned
    /\ engine_checked = NotChecked
    /\ brace_counts = NoCounts
    /\ fresh_parser = NoFresh

\* a ProtoFile in the hands of a user of the extractor
InitExtract ==
    /\ fs = [p \in CanonPaths |-> NoFile]
    /\ content = <<>>
    /\ InitParser
    /\ proto \in ExtractInputs
    /\ extracted = NotExtracted
    /\ config \in Configs
    /\ routes_in = <<>>
    /\ validated = NotValidated
    /\ template = <<>>
    /\ checked = NotChecked
    /\ enum_src = NoEnumSource
    /\ enum_val = NotParsed
    /\ proto_paths = <<>>
    /\ batch_pos = 1
    /\ processing = FALSE
    /\ results = NoResults
    /\ errors = <<>>
    /\ batch_ret = NotReturned
    /\ engine_checked = NotChecked
    /\ brace_counts = NoCounts
    /\ fresh_parser = NoFresh

\* a list of routes in the hands of a user of the extractor
InitValidate ==
    /\ fs = [p \in CanonPaths |-> NoFile]
    /\ content = <<>>
    /\ InitParser
    /\ proto = ProtoFile(<<>>)
    /\ extracted = NotExtracted
    /\ config \in Configs
    /\ routes_in \in RouteLists
    /\ validated = NotValidated
    /\ template = <<>>
    /\ checked = NotChecked
    /\ enum_src = NoEnumSource
    /\ enum_val = NotParsed
    /\ proto_paths = <<>>
    /\ batch_pos = 1
    /\ processing = FALSE
    /\ results = NoResults
    /\ errors = <<>>
    /\ batch_ret = NotReturned
    /\ engine_checked = NotChecked
    /\ brace_counts = NoCounts
    /\ fresh_parser = NoFresh

\* the user calls parse_content(toks)
CallParseContent(toks) ==
    /\ stack = <<>>
    /\ \E ord \in Perms(LiteralKeys(toks)) :
        LET g == ParseGrammar(toks, ord)
        IN  IF g.ok /\ ResolvesImports(g.file[1])
            THEN /\ stack' = <<Frame(None, g.file[1])>>
                 /\ ret' = ret
            ELSE /\ stack' = <<>>
                 /\ ret' = g
    /\ lastCall' = NoCall
    /\ lastDone' = NoDone
    /\ fresh_parser' = NoFresh
    /\ UNCHANGED <<fs, content, import_chain, import_cache, runs, proto, extracted, config, routes_in, validated, template, checked>>
    /\ UNCHANGED enumVars
    /\ UNCHANGED coordinatorVars
    /\ UNCHANGED engineVars

ParseContentOfInput == CallParseContent(content)

ParseContentOfText == \E toks \in UserTexts : CallParseContent(toks)

\* parse_file(path) is entered with no parse in progress
EnterParseFile(path) ==
    /\ stack = <<>>
    /\ \E ord \in Perms(LiteralKeys(fs[canonicalize(path)].content)) :
        LET call == parse_file(path, ord)
        IN  /\ ApplyCall(call, stack)
            /\ stack' = IF IsSome(call.frame) THEN <<call.frame[1]>> ELSE <<>>
            /\ ret' = IF IsSome(call.now) THEN call.now[1] ELSE ret
    /\ lastDone' = NoDone

\* the user calls parse_file(path)
CallParseFile(path) ==
    /\ EnterParseFile(path)
    /\ fresh_parser' = NoFresh
    /\ UNCHANGED <<fs, content, proto, extracted, config, routes_in, validated, template, checked>>
    /\ UNCHANGED enumVars
    /\ UNCHANGED coordinatorVars
    /\ UNCHANGED engineVars

ParseFileOfPath == \E path \in UserPaths : CallParseFile(path)

\* one iteration of the loop of resolve_imports in the innermost activation
ResolveImport ==
    /\ stack # <<>>
    /\ Last(stack).abort = None
    /\ Last(stack).idx <= Len(Last(stack).file.imports)
    /\ LET name == Last(stack).file.imports[Last(stack).idx]
           hit == FirstHit(name)
       IN  IF StartsWithGoogleApi(name)
               THEN /\ stack' = Advance(stack, name, Skipped)
                    /\ lastCall' = NoCall
                    /\ UNCHANGED <<import_chain, import_cache, runs>>
           ELSE IF hit = None
               THEN /\ stack' = Advance(stack, name, Err("ImportNotFound"))
                    /\ lastCall' = NoCall
                    /\ UNCHANGED <<import_chain, import_cache, runs>>
           ELSE \E ord \in Perms(LiteralKeys(fs[canonicalize(hit[1])].content)) :
                   LET call == parse_file(hit[1], ord)
                   IN  /\ ApplyCall(call, stack)
                       /\ stack' = IF IsSome(call.frame)
                                   THEN Append(stack, call.frame[1])
                                   ELSE Advance(stack, name, call.now[1])
    /\ lastDone' = NoDone
    /\ UNCHANGED <<fs, content, ret, proto, extracted, config, routes_in, validated, template, checked>>
    /\ UNCHANGED enumVars
    /\ UNCHANGED coordinatorVars
    /\ UNCHANGED engineVars
    /\ UNCHANGED freshVars

\* resolve_imports is through (or gave up): parse_content returns, and with it
\* the parse_file that called it
ReturnFrame ==
    /\ stack # <<>>
    /\ IsSome(Last(stack).abort) \/ Last(stack).idx > Len(Last(stack).file.imports)
    /\ LET top == Last(stack)
           rest == Front(stack)
           res == IF IsSome(top.abort) THEN top.abort[1] ELSE Ok(top.file)
       IN  /\ IF IsSome(top.canon)
              THEN /\ import_chain' = Popped(import_chain)
                   /\ import_cache' = Inserted(import_cache, top.canon[1], res)
              ELSE UNCHANGED <<import_chain, import_cache>>
           /\ lastCall' = NoCall
           /\ lastDone' = [canon |-> top.canon, file |-> Some(top.file),
                           res |-> Some(res), log |-> top.log]
           /\ stack' = IF rest = <<>> THEN <<>>
                       ELSE Advance(rest, Last(rest).file.imports[Last(rest).idx], res)
           /\ ret' = IF rest = <<>> THEN res ELSE ret
    /\ UNCHANGED <<fs, content, runs, proto, extracted, config, routes_in, validated, template, checked>>
    /\ UNCHANGED enumVars
    /\ UNCHANGED coordinatorVars
    /\ UNCHANGED engineVars
    /\ UNCHANGED freshVars

\* clear_cache()
ClearCache ==
    /\ stack = <<>>
    /\ import_cache' = [p \in CanonPaths |-> None]
    /\ import_chain' = <<>>
    /\ runs' = [p \in CanonPaths |-> 0]
    /\ lastCall' = NoCall
    /\ lastDone' = NoDone
    /\ ret' = NoRet
    /\ UNCHANGED <<fs, content, stack, proto, extracted, config, routes_in, validated, template, checked>>
    /\ UNCHANGED enumVars
    /\ UNCHANGED coordinatorVars
    /\ UNCHANGED engineVars
    /\ UNCHANGED freshVars

\* the user hands the ProtoFile parse_content returned to extract_routes
ExtractParsed ==
    /\ stack = <<>>
    /\ ret.ok
    /\ extracted = NotExtracted
    /\ proto' = ret.file[1]
    /\ \E ord \in Perms(OptionKeys(ret.file[1])) :
         extracted' = extract_routes(ret.file[1], ord)
    /\ lastCall' = NoCall
    /\ lastDone' = NoDone
    /\ UNCHANGED <<fs, content, stack, import_chain, import_cache, ret, runs>>
    /\ UNCHANGED <<config, routes_in, validated, template, checked>>
    /\ UNCHANGED enumVars
    /\ UNCHANGED coordinatorVars
    /\ UNCHANGED engineVars
    /\ UNCHANGED freshVars

NextParse == ParseContentOfInput \/ ResolveImport \/ ReturnFrame \/ ExtractParsed

SpecParse == InitParse /\ [][NextParse]_vars

NextImports ==
    \/ ParseFileOfPath
    \/ ParseContentOfText
    \/ ResolveImport
    \/ ReturnFrame
    \/ ClearCache

SpecImports == InitImports /\ [][NextImports]_vars

\* the user calls parse_with_imports(path, import_paths): parse_file runs on a
\* parser built from the configuration with import_paths added
ParseWithImports(path, import_paths) ==
    /\ stack = <<>>
    /\ \E ord \in Perms(UNION {LiteralKeys(fs[p].content) : p \in CanonPaths}) :
        \E call \in {parse_file_on(NewParser, include_paths \o import_paths, path, ord)} :
            /\ fresh_parser' = [called |-> TRUE, canon |-> Some(canonicalize(path)),
                                ret |-> call.res, on |-> call.on]
            /\ ret' = call.res
    /\ lastCall' = NoCall
    /\ lastDone' = NoDone
    /\ UNCHANGED <<fs, content, stack, import_chain, import_cache, runs>>
    /\ UNCHANGED extractorVars
    /\ UNCHANGED enumVars
    /\ UNCHANGED coordinatorVars
    /\ UNCHANGED engineVars

ParseWithImportsOfPath ==
    \E path \in UserPaths : \E import_paths \in ExtraIncludePaths :
        ParseWithImports(path, import_paths)

NextFresh ==
    \/ ParseFileOfPath
    \/ ParseContentOfText
    \/ ResolveImport
    \/ ReturnFrame
    \/ ParseWithImportsOfPath

\* the include directories hold no copy of the annotations file
InitFresh == InitImports /\ ~fs[GoogleApiFile].exists

SpecFresh == InitFresh /\ [][NextFresh]_vars

\* a list of paths in the hands of a user of the coordinator
InitBatch ==
    /\ fs \in FileSystems
    /\ content = <<>>
    /\ InitParser
    /\ proto = ProtoFile(<<>>)
    /\ extracted = NotExtracted
    /\ config = DefaultConfig
    /\ routes_in = <<>>
    /\ validated = NotValidated
    /\ template = <<>>
    /\ checked = NotChecked
    /\ enum_src = NoEnumSource
    /\ enum_val = NotParsed
    /\ proto_paths \in BatchInputs
    /\ batch_pos = 1
    /\ processing = FALSE
    /\ results = NoResults
    /\ errors = <<>>
    /\ batch_ret = NotReturned
    /\ engine_checked = NotChecked
    /\ brace_counts = NoCounts
    /\ fresh_parser = NoFresh

\* process_file from the result of extract_routes on: validate_annotations,
\* then the generation per service
validated_routes(routes) ==
    IF ~routes.ok THEN [ok |-> FALSE, err |-> "Validation", routes |-> <<>>]
    ELSE IF ~validate_annotations(routes.routes, DefaultConfig).ok
        THEN [ok |-> FALSE, err |-> "Validation", routes |-> <<>>]
    ELSE [ok |-> TRUE, err |-> "", routes |-> routes.routes]

\* process_file after parse_file has returned: validate_proto_file returns Ok
\* for every file and no plugin is registered, so what is left is
\* extract_routes, validate_annotations and the generation per service
process_file(parsed, ord) ==
    IF ~parsed.ok THEN [ok |-> FALSE, err |-> "Parse", routes |-> <<>>]
    ELSE validated_routes(extract_routes(parsed.file[1], ord))

\* process_files: the loop calls process_file, which calls parse_file
ProcessFileParse ==
    /\ batch_ret = NotReturned
    /\ ~processing
    /\ batch_pos <= Len(proto_paths)
    /\ EnterParseFile(proto_paths[batch_pos])
    /\ processing' = TRUE
    /\ UNCHANGED <<proto_paths, batch_pos, results, errors, batch_ret>>
    /\ UNCHANGED <<fs, content>>
    /\ UNCHANGED extractorVars
    /\ UNCHANGED enumVars
    /\ UNCHANGED engineVars
    /\ UNCHANGED freshVars

\* process_files: process_file returns and the loop files its result
ProcessFileDone ==
    /\ processing
    /\ stack = <<>>
    /\ LET path == proto_paths[batch_pos]
       IN  \E ord \in Perms(IF ret.ok THEN OptionKeys(ret.file[1]) ELSE {}) :
             \E result \in {process_file(ret, ord)} :
                 IF result.ok
                 THEN /\ results' = [p \in DOMAIN results \cup {path} |->
                                        IF p = path THEN result ELSE results[p]]
                      /\ errors' = errors
                 ELSE /\ results' = results
                      /\ errors' = Append(errors, <<path, result.err>>)
    /\ batch_pos' = batch_pos + 1
    /\ processing' = FALSE
    /\ lastCall' = NoCall
    /\ lastDone' = NoDone
    /\ UNCHANGED <<proto_paths, batch_ret>>
    /\ UNCHANGED <<fs, content, stack, import_chain, import_cache, ret, runs>>
    /\ UNCHANGED extractorVars
    /\ UNCHANGED enumVars
    /\ UNCHANGED engineVars
    /\ UNCHANGED freshVars

\* process_files returns Ok(BatchProcessResult { results, errors })
ProcessFilesReturn ==
    /\ batch_ret = NotReturned
    /\ ~processing
    /\ batch_pos > Len(proto_paths)
    /\ batch_ret' = [ok |-> TRUE,
                     success_count |-> Cardinality(DOMAIN results),
                     error_count |-> Len(errors)]
    /\ lastCall' = NoCall
    /\ lastDone' = NoDone
    /\ UNCHANGED <<proto_paths, batch_pos, processing, results, errors>>
    /\ UNCHANGED <<fs, content, stack, import_chain, import_cache, ret, runs>>
    /\ UNCHANGED extractorVars
    /\ UNCHANGED enumVars
    /\ UNCHANGED engineVars
    /\ UNCHANGED freshVars

NextBatch ==
    \/ ProcessFileParse
    \/ ResolveImport
    \/ ReturnFrame
    \/ ProcessFileDone
    \/ ProcessFilesReturn

SpecBatch == InitBatch /\ [][NextBatch]_vars

\* the user calls extract_routes(&proto)
ExtractRoutes ==
    /\ extracted = NotExtracted
    /\ \E ord \in Perms(OptionKeys(proto)) : extracted' = extract_routes(proto, ord)
    /\ UNCHANGED <<proto, config, routes_in, validated, template, checked>>
    /\ UNCHANGED enumVars
    /\ UNCHANGED coordinatorVars
    /\ UNCHANGED engineVars
    /\ UNCHANGED freshVars
    /\ UNCHANGED parserVars

\* the user calls validate_annotations(&routes) with the routes extract_routes
\* returned
ValidateExtracted ==
    /\ extracted.ok
    /\ validated = NotValidated
    /\ routes_in' = extracted.routes
    /\ validated' = validate_annotations(extracted.routes, config)
    /\ UNCHANGED <<proto, extracted, config, template, checked>>
    /\ UNCHANGED enumVars
    /\ UNCHANGED coordinatorVars
    /\ UNCHANGED engineVars
    /\ UNCHANGED freshVars
    /\ UNCHANGED parserVars

NextExtract == ExtractRoutes \/ ValidateExtracted

SpecExtract == InitExtract /\ [][NextExtract]_vars

\* a string in the hands of a user of the extractor
InitPath ==
    /\ fs = [p \in CanonPaths |-> NoFile]
    /\ content = <<>>
    /\ InitParser
    /\ proto = ProtoFile(<<>>)
    /\ extracted = NotExtracted
    /\ config = DefaultConfig
    /\ routes_in = <<>>
    /\ validated = NotValidated
    /\ template \in PathTemplates
    /\ checked = NotChecked
    /\ enum_src = NoEnumSource
    /\ enum_val = NotParsed
    /\ proto_paths = <<>>
    /\ batch_pos = 1
    /\ processing = FALSE
    /\ results = NoResults
    /\ errors = <<>>
    /\ batch_ret = NotReturned
    /\ engine_checked = NotChecked
    /\ brace_counts = NoCounts
    /\ fresh_parser = NoFresh

InitEnum ==
    /\ fs = [p \in CanonPaths |-> NoFile]
    /\ content = <<>>
    /\ InitParser
    /\ proto = ProtoFile(<<>>)
    /\ extracted = NotExtracted
    /\ config = DefaultConfig
    /\ routes_in = <<>>
    /\ validated = NotValidated
    /\ template = <<>>
    /\ checked = NotChecked
    /\ enum_src \in EnumSources
    /\ enum_val = NotParsed
    /\ proto_paths = <<>>
    /\ batch_pos = 1
    /\ processing = FALSE
    /\ results = NoResults
    /\ errors = <<>>
    /\ batch_ret = NotReturned
    /\ engine_checked = NotChecked
    /\ brace_counts = NoCounts
    /\ fresh_parser = NoFresh

\* the grammar reaches an enum value declaration
EnumValue ==
    /\ enum_val = NotParsed
    /\ enum_val' = enum_value(enum_src)
    /\ UNCHANGED enum_src
    /\ UNCHANGED extractorVars
    /\ UNCHANGED coordinatorVars
    /\ UNCHANGED engineVars
    /\ UNCHANGED freshVars
    /\ UNCHANGED parserVars

NextEnum == EnumValue

SpecEnum == InitEnum /\ [][NextEnum]_vars

\* the user calls validate_path_template(template)
ValidatePathTemplate ==
    /\ checked = NotChecked
    /\ checked' = validate_path_template(template)
    /\ brace_counts' = [brace_counts EXCEPT !.extractor = BraceCountsOf(template)]
    /\ UNCHANGED <<proto, extracted, config, routes_in, validated, template>>
    /\ UNCHANGED enumVars
    /\ UNCHANGED coordinatorVars
    /\ UNCHANGED engine_checked
    /\ UNCHANGED freshVars
    /\ UNCHANGED parserVars

\* the user calls ValidationEngine::validate_path_template(&template)
EngineValidatePathTemplate ==
    /\ engine_checked = NotChecked
    /\ engine_checked' = engine_validate_path_template(template)
    /\ brace_counts' = [brace_counts EXCEPT !.engine = EngineBraceCountsOf(template)]
    /\ UNCHANGED extractorVars
    /\ UNCHANGED enumVars
    /\ UNCHANGED coordinatorVars
    /\ UNCHANGED freshVars
    /\ UNCHANGED parserVars

NextPath == ValidatePathTemplate \/ EngineValidatePathTemplate

SpecPath == InitPath /\ [][NextPath]_vars

\* the user calls validate_annotations(&routes)
ValidateAnnotations ==
    /\ validated = NotValidated
    /\ validated' = validate_annotations(routes_in, config)
    /\ UNCHANGED <<proto, extracted, config, routes_in, template, checked>>
    /\ UNCHANGED enumVars
    /\ UNCHANGED coordinatorVars
    /\ UNCHANGED engineVars
    /\ UNCHANGED freshVars
    /\ UNCHANGED parserVars

NextValidate == ValidateAnnotations

SpecValidate == InitValidate /\ [][NextValidate]_vars

\* ------------------------------------------------------------------ claims
\* the declarations of a kind a text holds
Declared(toks, kind) == Cardinality({i \in 1..Len(toks) : toks[i].kind = kind})

\* a syntactically valid proto3 text: the syntax statement first, then
\* package (at most once), imports, options and definitions in any order,
\* comments anywhere, nothing malformed
ValidProto3(toks) ==
    LET code == SelectSeq(toks, LAMBDA t : ~IsComment(t))
    IN  /\ code # <<>>
        /\ code[1].kind = "syntax"
        /\ Declared(toks, "syntax") = 1
        /\ Declared(toks, "package") <= 1
        /\ Declared(toks, "junk") = 0

Returned == stack = <<>> /\ ret # NoRet

\* C1: parse_content succeeds on every syntactically valid proto3 text, and
\* the ProtoFile has as many services, messages, enums and imports as the text
\* declares.
C1_CountsMatchSource ==
    Returned /\ ValidProto3(content) =>
        /\ ret.ok
        /\ Len(ret.file[1].services) = Declared(content, "service")
        /\ Len(ret.file[1].messages) = Declared(content, "message")
        /\ Len(ret.file[1].enums) = Declared(content, "enum")
        /\ Len(ret.file[1].imports) = Declared(content, "import")

\* C2: whenever what is left after the last definition the grammar could
\* parse holds anything but whitespace and comments, parse_content returns
\* InvalidSyntax and no ProtoFile.
C2_TrailingContentRejected ==
    LET remaining == proto_file(content, <<>>)[2]
    IN  Returned /\ (\E i \in 1..Len(remaining) : ~IsComment(remaining[i])) =>
            ~ret.ok /\ ret.err = "InvalidSyntax" /\ ret.file = None

\* C7: once parse_content has returned a result for a text, every later call
\* on that text returns the same result.
C7_ParseDeterministic == [][ret # NoRet => ret' = ret]_ret

\* the distinct files on disk
NumFiles == Cardinality({p \in CanonPaths : fs[p].exists})

\* C3: a parse_file call for a path whose canonical form is on the import
\* chain returns CircularImport with the chain followed by that path, and
\* parses nothing and leaves chain and cache as they were.
C3_CircularImportReported ==
    [][IsSome(lastCall'.canon)
       /\ (\E i \in 1..Len(import_chain) : import_chain[i] = lastCall'.canon[1]) =>
        /\ IsSome(lastCall'.res)
        /\ ~lastCall'.res[1].ok
        /\ lastCall'.res[1].err = "CircularImport"
        /\ lastCall'.res[1].cycle = import_chain \o <<lastCall'.canon[1]>>
        /\ import_chain' = import_chain
        /\ import_cache' = import_cache
        /\ runs' = runs
        /\ Len(stack') = Len(stack)]_vars

C3_Witness ==
    /\ IsSome(lastCall.res)
    /\ lastCall.res[1].err = "CircularImport"
    /\ Len(lastCall.res[1].cycle) > 2

\* C4 as claimed: the depth of nested parse_file calls never exceeds the
\* number of distinct files.
C4_DepthWithinFiles ==
    IsSome(lastCall.canon) /\ fs[lastCall.canon[1]].exists => lastCall.depth <= NumFiles

\* C4 as amended: the depth of nested parse_file calls never exceeds the
\* number of distinct files plus one, and the calls that go on to parse
\* (the import chain) never exceed the number of distinct files.
C4_DepthBounded ==
    /\ lastCall.depth <= NumFiles + 1
    /\ Len(import_chain) <= NumFiles
    /\ FileDepth(stack) = Len(import_chain)
    /\ \A i, j \in 1..Len(import_chain) : import_chain[i] = import_chain[j] => i = j

C4_Witness ==
    /\ lastCall.depth = NumFiles + 1
    /\ NumFiles = 2
    /\ IsSome(lastCall.res)
    /\ lastCall.res[1].err = "CircularImport"

\* a file the grammar accepts
ParsesOk(p) == fs[p].exists /\ ParseGrammar(fs[p].content, <<>>).ok

\* C5: between two clear_cache calls the grammar runs at most once on a file
\* that parses successfully; a parse_file call that finds the file cached
\* returns the cached ProtoFile.
C5_ParsedAtMostOnce ==
    \A p \in CanonPaths :
        /\ ParsesOk(p) => runs[p] <= 1
        /\ IsSome(import_cache[p]) =>
            /\ runs[p] = 1
            /\ import_cache[p] = ParseGrammar(fs[p].content, <<>>).file
            /\ lastCall.canon = Some(p) => lastCall.res = Some(Ok(import_cache[p][1]))

\* a file with imports of its own is returned from the cache to an importer
C5_Witness ==
    /\ lastCall.depth >= 2
    /\ IsSome(lastCall.res)
    /\ lastCall.res[1].ok
    /\ lastCall.res[1].file[1].imports # <<>>

\* C6: a parse_content whose imports fail (not found, parse error, circular)
\* still returns Ok with its own ProtoFile, and every import was taken up in
\* declaration order, those after a failed one included.
C6_FailedImportSwallowed ==
    IsSome(lastDone.res) =>
        LET file == lastDone.file[1]
            log == lastDone.log
        IN  /\ lastDone.res[1] = Ok(file)
            /\ IsSome(lastDone.canon) =>
                 file = ParseGrammar(fs[lastDone.canon[1]].content, <<>>).file[1]
            /\ Len(log) = Len(file.imports)
            /\ \A k \in 1..Len(log) :
                 /\ log[k].path = file.imports[k]
                 /\ (log[k].outcome = Skipped) = StartsWithGoogleApi(file.imports[k])
            /\ stack = <<>> => ret = Ok(file)

\* a failed import is followed by one that resolves
C6_Witness ==
    /\ IsSome(lastDone.res)
    /\ IsSome(lastDone.canon)
    /\ Len(lastDone.log) = 2
    /\ ~lastDone.log[1].outcome.ok
    /\ lastDone.log[2].outcome.ok
    /\ lastDone.log[2].outcome # Skipped

\* a method that carries an HTTP annotation: in its http_annotation field, or
\* as a google.api.http option
Annotated(method) ==
    \/ IsSome(method.http_annotation)
    \/ \E x \in 1..Len(method.options) : method.options[x].name = "google.api.http"

\* the additional_bindings of the annotation of a method; none is decoded
\* from an option
BindingCount(method) ==
    IF IsSome(method.http_annotation)
    THEN Len(method.http_annotation[1].additional_bindings)
    ELSE 0

RECURSIVE ExpectedOwners(_)
\* for each annotated method in declaration order, 1 + its additional
\* bindings times the names of its service and of the method
ExpectedOwners(ms) ==
    IF ms = <<>> THEN <<>>
    ELSE LET m == Head(ms)
             n == IF Annotated(m.method) THEN 1 + BindingCount(m.method) ELSE 0
         IN  [k \in 1..n |-> <<m.service.name, m.method.name>>] \o ExpectedOwners(Tail(ms))

\* C8: when extract_routes succeeds, it returns one route per annotated
\* method plus one per additional binding of its annotation, in declaration
\* order and under the names of the service and the method; a method without
\* annotation has no route.
C8_RoutesPerAnnotation ==
    extracted.ok =>
        LET owners == ExpectedOwners(MethodsOf(proto))
            routes == extracted.routes
        IN  /\ Len(routes) = Len(owners)
            /\ \A k \in 1..Len(routes) :
                 /\ <<routes[k].service_name, routes[k].method_name>> = owners[k]
                 /\ \E s \in 1..Len(proto.services) :
                      /\ proto.services[s].name = routes[k].service_name
                      /\ \E m \in 1..Len(proto.services[s].methods) :
                           /\ proto.services[s].methods[m].name = routes[k].method_name
                           /\ Annotated(proto.services[s].methods[m])

\* a method with an additional binding next to a method without annotation
C8_Witness ==
    /\ extracted.ok
    /\ Len(extracted.routes) = 2
    /\ Len(MethodsOf(proto)) = 2
    /\ \E k \in 1..2 : ~Annotated(MethodsOf(proto)[k].method)
    /\ \E k \in 1..2 : BindingCount(MethodsOf(proto)[k].method) = 1

\* the {...} placeholders of a path template: the opening braces that a
\* closing brace follows
Placeholders(path) ==
    Cardinality({p \in 1..Len(path) : path[p] = "{" /\ ClosersAfter(path, p) # {}})

\* C9: every route returned by extract_routes has as many path parameters as
\* its path template has {...} placeholders, each with a non-empty name and
\* required.
C9_ParameterPerPlaceholder ==
    extracted.ok =>
        \A k \in 1..Len(extracted.routes) :
            LET route == extracted.routes[k]
            IN  /\ Len(route.path_parameters) = Placeholders(route.path_template)
                /\ \A i \in 1..Len(route.path_parameters) :
                     /\ route.path_parameters[i].name # <<>>
                     /\ route.path_parameters[i].required

\* C10: every route returned by extract_routes has no request body exactly
\* when its method is Get or Delete.
C10_BodyIffNotGetDelete ==
    extracted.ok =>
        \A k \in 1..Len(extracted.routes) :
            (extracted.routes[k].request_body = None)
                <=> (extracted.routes[k].http_method.v \in {"Get", "Delete"})

\* the checks validate_annotations makes on each route by itself
PassesRouteChecks(rs, cfg) == \A k \in 1..Len(rs) : RouteCheck(rs[k], cfg).ok

\* C11: a list of routes that pass the per-route checks is rejected by
\* validate_annotations exactly when two of its routes have the same HTTP
\* method and the same path template.
C11_ConflictIffSameMethodAndPath ==
    validated # NotValidated /\ PassesRouteChecks(routes_in, config) =>
        (~validated.ok <=>
            \E i, j \in 1..Len(routes_in) :
                /\ i < j
                /\ routes_in[i].http_method = routes_in[j].http_method
                /\ routes_in[i].path_template = routes_in[j].path_template)

\* a parameter is open in front of position i: the last brace before i opens
OpenBefore(path, i) ==
    \E j \in 1..(i - 1) :
        /\ path[j] = "{"
        /\ \A k \in (j + 1)..(i - 1) : path[k] \notin {"{", "}"}

\* the positions that violate the brace rules: an opening brace while a
\* parameter is open, a closing brace while none is
BraceViolations(path) ==
    {i \in 1..Len(path) :
        \/ path[i] = "{" /\ OpenBefore(path, i)
        \/ path[i] = "}" /\ ~OpenBefore(path, i)}

\* C12: validate_path_template accepts exactly the non-empty strings that
\* start with '/' and whose braces are balanced without nesting; any other
\* string gets InvalidHttpAnnotation for the first violation from the left:
\* nested braces, unmatched closing brace, or unmatched opening brace at the
\* end.
C12_PathTemplateRules ==
    checked # NotChecked =>
        LET bad == BraceViolations(template)
            first == CHOOSE i \in bad : \A j \in bad : i <= j
        IN  /\ checked.ok <=>
                /\ template # <<>>
                /\ template[1] = "/"
                /\ bad = {}
                /\ ~OpenBefore(template, Len(template) + 1)
            /\ ~checked.ok => checked.err = "InvalidHttpAnnotation"
            /\ template # <<>> /\ template[1] = "/" /\ bad # {} =>
                checked.message =
                    IF template[first] = "{"
                    THEN "Nested braces are not allowed in path template"
                    ELSE "Unmatched closing brace in path template"
            /\ template # <<>> /\ template[1] = "/" /\ bad = {}
                              /\ OpenBefore(template, Len(template) + 1) =>
                checked.message = "Unmatched opening brace in path template"

\* a nested opening brace is met before an unmatched closing one
C12_Witness ==
    /\ checked.message = "Nested braces are not allowed in path template"
    /\ \E i \in 1..Len(template) : template[i] = "}"

\* the rpc declarations of the services of a text, as written
DeclaredServices(toks) == SelectSeq(toks, LAMBDA t : t.kind = "service")

\* the fields of a message literal under one of the given keys
FieldsOf(value, keys) == SelectSeq(value.f, LAMBDA kv : kv[1] \in keys)

\* an rpc declares google.api.http once, with a message literal that holds one
\* verb key, with a string value, and at most one body
DeclaresOneVerb(src) ==
    LET https == SelectSeq(src.opts, LAMBDA o : o.name = "google.api.http")
    IN  /\ Len(https) = 1
        /\ https[1].value.t = "MessageLiteral"
        /\ Len(FieldsOf(https[1].value, VerbKeys)) = 1
        /\ FieldsOf(https[1].value, VerbKeys)[1][2].t = "String"
        /\ Len(FieldsOf(https[1].value, {"body"})) <= 1

\* C13: no RpcMethod parse_content produces has an option named
\* google.api.http; a method that declares it with a message literal holding
\* one verb key with a string value has that verb, that path and the body
\* string of the literal in http_annotation.
C13_HttpOptionIntercepted ==
    Returned /\ ret.ok =>
        \A s \in 1..Len(ret.file[1].services) :
            LET parsed == ret.file[1].services[s].methods
                written == DeclaredServices(content)[s].methods
            IN  /\ Len(parsed) = Len(written)
                /\ \A m \in 1..Len(parsed) :
                     /\ \A x \in 1..Len(parsed[m].options) :
                          parsed[m].options[x].name # "google.api.http"
                     /\ DeclaresOneVerb(written[m]) =>
                          LET lit == SelectSeq(written[m].opts,
                                               LAMBDA o : o.name = "google.api.http")[1].value
                              verb == FieldsOf(lit, VerbKeys)[1]
                              body == FieldsOf(lit, {"body"})
                          IN  /\ IsSome(parsed[m].http_annotation)
                              /\ parsed[m].http_annotation[1].method = VerbMethod(verb[1])
                              /\ parsed[m].http_annotation[1].path = verb[2].s
                              /\ parsed[m].http_annotation[1].body =
                                    IF body # <<>> /\ body[1][2].t = "String"
                                    THEN Some(body[1][2].s)
                                    ELSE None

\* a method declared with another option and a post annotation with body
C13_Witness ==
    /\ Returned
    /\ ret.ok
    /\ \E s \in 1..Len(ret.file[1].services) :
         \E m \in 1..Len(ret.file[1].services[s].methods) :
            LET method == ret.file[1].services[s].methods[m]
            IN  /\ method.options # <<>>
                /\ IsSome(method.http_annotation)
                /\ method.http_annotation[1].method = Std("Post")
                /\ IsSome(method.http_annotation[1].body)

\* the value of a google.api.http option that gives no verb with a string
\* path: no message literal, or a literal without such a field
Undecodable(value) ==
    \/ value.t # "MessageLiteral"
    \/ \A k \in 1..Len(value.f) : ~(value.f[k][1] \in VerbKeys /\ value.f[k][2].t = "String")

\* an rpc of the text declares google.api.http with an undecodable value
DeclaresUndecodable(toks) ==
    \E i \in 1..Len(toks) : \E m \in 1..Len(toks[i].methods) :
        \E x \in 1..Len(toks[i].methods[m].opts) :
            /\ toks[i].methods[m].opts[x].name = "google.api.http"
            /\ Undecodable(toks[i].methods[m].opts[x].value)

\* C14: when a method of a source text carries a google.api.http option whose
\* value gives no verb with a string path, extract_routes on the ProtoFile
\* that parse_content produced fails with InvalidHttpAnnotation.
C14_UndecodableAnnotationFails ==
    /\ extracted # NotExtracted
    /\ DeclaresUndecodable(content)
    /\ Len(proto.services) = Len(DeclaredServices(content))
    => ~extracted.ok /\ extracted.err = "InvalidHttpAnnotation"

\* the paths of the annotation of a method, the primary one first: those of
\* its http_annotation field, else the one its google.api.http option gives
AnnotationPaths(method) ==
    IF IsSome(method.http_annotation)
    THEN LET a == method.http_annotation[1]
         IN  <<a.path>> \o [k \in 1..Len(a.additional_bindings) |-> a.additional_bindings[k].path]
    ELSE LET https == SelectSeq(method.options, LAMBDA o : o.name = "google.api.http")
         IN  IF https = <<>> \/ Undecodable(https[1].value) THEN <<>>
             ELSE <<FieldsOf(https[1].value, VerbKeys)[1][2].s>>

\* why a method cannot be extracted: its option is undecodable, or the first
\* of its paths that is no valid template; "" when it can
MethodFailure(method) ==
    LET https == SelectSeq(method.options, LAMBDA o : o.name = "google.api.http")
        paths == AnnotationPaths(method)
        bad == {k \in 1..Len(paths) : ~validate_path_template(paths[k]).ok}
    IN  IF method.http_annotation = None /\ https # <<>> /\ Undecodable(https[1].value)
            THEN IF https[1].value.t = "MessageLiteral"
                 THEN "Missing HTTP method or path"
                 ELSE "Invalid HTTP annotation format"
        ELSE IF bad # {}
            THEN validate_path_template(paths[CHOOSE k \in bad : \A j \in bad : k <= j]).message
        ELSE ""

\* the methods of a ProtoFile that cannot be extracted, by position
FailingMethods(file) ==
    {k \in 1..Len(MethodsOf(file)) : MethodFailure(MethodsOf(file)[k].method) # ""}

\* C15: extract_routes succeeds exactly when no annotated method has an
\* invalid path template or an undecodable annotation; otherwise it returns
\* the error of the first such method in service/method order and no route.
C15_FirstErrorAborts ==
    extracted # NotExtracted =>
        LET failing == FailingMethods(proto)
            first == CHOOSE k \in failing : \A j \in failing : k <= j
        IN  /\ extracted.ok <=> failing = {}
            /\ ~extracted.ok =>
                 /\ extracted.routes = <<>>
                 /\ extracted.err = "InvalidHttpAnnotation"
                 /\ extracted.message = MethodFailure(MethodsOf(proto)[first].method)

\* a valid annotated method, then two methods that fail for different reasons
C15_Witness ==
    /\ ~extracted.ok
    /\ extracted # NotExtracted
    /\ Len(MethodsOf(proto)) = 2
    /\ Annotated(MethodsOf(proto)[1].method)
    /\ FailingMethods(proto) = {2}

\* C16: a list holding a route whose http_method is Custom is accepted by
\* validate_annotations only when allow_custom_methods is set, whatever the
\* value of validate_http_methods.
C16_CustomNeedsAllowCustom ==
    (/\ validated # NotValidated
     /\ validated.ok
     /\ \E k \in 1..Len(routes_in) : routes_in[k].http_method.v = "Custom")
        => config.allow_custom_methods

\* HttpRoute::operation_id: format!("{}_{}", service_name, method_name)
operation_id(route) == route.service_name \o <<"_">> \o route.method_name

\* C17: when validate_annotations accepts the routes extracted from a
\* ProtoFile, their operation_id values are pairwise distinct.
C17_OperationIdsDistinct ==
    (validated # NotValidated /\ validated.ok) =>
        \A j, k \in 1..Len(routes_in) :
            operation_id(routes_in[j]) = operation_id(routes_in[k]) => j = k

\* the google.api.http option read for a method is a message literal of one
\* verb key with a string path and at most one body, a string, and no other key
SimpleLiteral(method) ==
    LET https == SelectSeq(method.options, LAMBDA o : o.name = "google.api.http")
    IN  /\ https # <<>>
        /\ https[1].value.t = "MessageLiteral"
        /\ Len(https[1].value.f) = Len(FieldsOf(https[1].value, VerbKeys \cup {"body"}))
        /\ Len(FieldsOf(https[1].value, VerbKeys)) = 1
        /\ Len(FieldsOf(https[1].value, {"body"})) <= 1
        /\ \A k \in 1..Len(https[1].value.f) : https[1].value.f[k][2].t = "String"

\* the method with its annotation moved to the http_annotation field: the
\* field as it is, without the options, when it is populated; (verb, path,
\* body) of a simple option literal; any other method as it is
AsField(method) ==
    IF IsSome(method.http_annotation) THEN [method EXCEPT !.options = <<>>]
    ELSE IF SimpleLiteral(method)
    THEN LET value == SelectSeq(method.options, LAMBDA o : o.name = "google.api.http")[1].value
             verb == FieldsOf(value, VerbKeys)[1]
             body == FieldsOf(value, {"body"})
         IN  RpcMethod(method.name, <<>>,
                       Some(HttpAnnotation(VerbMethod(verb[1]), verb[2].s,
                                           IF body = <<>> THEN None ELSE Some(body[1][2].s),
                                           <<>>)))
    ELSE method

FieldForm(file) ==
    ProtoFile([s \in 1..Len(file.services) |->
        Service(file.services[s].name,
                [m \in 1..Len(file.services[s].methods) |-> AsField(file.services[s].methods[m])])])

\* C18: extract_routes gives a ProtoFile the result it gives the same file
\* with every annotation held in the http_annotation field: a simple option
\* literal {verb: path, body: b} counts as the field (verb, path, b), and the
\* options of a method whose field is populated count for nothing.
C18_RepresentationsAlike ==
    extracted # NotExtracted =>
        \E ord \in Perms(OptionKeys(proto)) : extracted = extract_routes(FieldForm(proto), ord)

\* an option literal with a body next to a populated field with other options
C18_Witness ==
    /\ extracted.ok
    /\ Len(extracted.routes) = 2
    /\ Len(MethodsOf(proto)) = 2
    /\ MethodsOf(proto)[1].method.http_annotation = None
    /\ SimpleLiteral(MethodsOf(proto)[1].method)
    /\ IsSome(extracted.routes[1].request_body)
    /\ IsSome(MethodsOf(proto)[2].method.http_annotation)
    /\ MethodsOf(proto)[2].method.options # <<>>

\* n is written as a decimal literal: 0, or digits that start with none
DecimalLiteral(digits) == digits # <<>> /\ (Len(digits) = 1 \/ digits[1] # 0)

\* digit runs of one length compared as numbers
DigitsAtMost(a, b) ==
    \/ a = b
    \/ \E k \in 1..Len(a) : a[k] < b[k] /\ \A j \in 1..(k - 1) : a[j] = b[j]

\* -2^31 <= n <= 2^31 - 1, read off the digits of n
InI32Range(src) ==
    LET limit == <<2, 1, 4, 7, 4, 8, 3, 6, 4, IF src.neg THEN 8 ELSE 7>>
    IN  \/ Len(src.digits) < Len(limit)
        \/ Len(src.digits) = Len(limit) /\ DigitsAtMost(src.digits, limit)

RECURSIVE NegatedValue(_, _)
\* the number -n the digits of n stand for, digit by digit
NegatedValue(digits, acc) ==
    IF digits = <<>> THEN acc ELSE NegatedValue(Tail(digits), acc * 10 - Head(digits))

LiteralValueOf(src) ==
    IF src.neg THEN NegatedValue(src.digits, 0) ELSE 0 - NegatedValue(src.digits, 0)

\* C19: the enum value 'NAME = n;' with n a decimal literal between -2^31
\* and 2^31 - 1 parses to an EnumValue whose number is n.
C19_EnumNumberIsLiteral ==
    (/\ enum_val # NotParsed
     /\ DecimalLiteral(enum_src.digits)
     /\ InI32Range(enum_src))
        => /\ enum_val.ok
           /\ enum_val.name = enum_src.name
           /\ enum_val.number = LiteralValueOf(enum_src)

\* where a kind of statement stands in the grammar of proto_file
GrammarRank(kind) ==
    CASE kind = "syntax" -> 1
      [] kind = "package" -> 2
      [] kind = "import" -> 3
      [] kind = "option" -> 4
      [] kind \in DefinitionKinds -> 5
      [] OTHER -> 0

\* a text of statements in the order of the grammar, whose comments all
\* stand before a definition
CommentedDefinitions(toks) ==
    LET code == SelectSeq(toks, LAMBDA t : ~IsComment(t))
    IN  /\ Declared(toks, "junk") = 0
        /\ Declared(toks, "syntax") <= 1
        /\ Declared(toks, "package") <= 1
        /\ \A i \in 1..(Len(code) - 1) : GrammarRank(code[i].kind) <= GrammarRank(code[i + 1].kind)
        /\ \A i \in 1..Len(toks) : IsComment(toks[i]) =>
              \E at \in (i + 1)..Len(toks) :
                  /\ toks[at].kind \in DefinitionKinds
                  /\ \A j \in i..(at - 1) : IsComment(toks[j])

\* the comments written before each definition of a kind, as runs
CommentRuns(toks, kind) ==
    LET at == SelectSeq([i \in 1..Len(toks) |-> i], LAMBDA i : toks[i].kind = kind)
        from(i) == CHOOSE f \in 1..i :
                      /\ \A j \in f..(i - 1) : IsComment(toks[j])
                      /\ f = 1 \/ ~IsComment(toks[f - 1])
    IN  [k \in 1..Len(at) |-> SubSeq(toks, from(at[k]), at[k] - 1)]

\* C20: the comments written before a service, message or enum, whatever
\* whitespace stands between them, do not stop the parse, and the definition
\* carries all of them in source order.
C20_CommentRunsAttached ==
    Returned /\ CommentedDefinitions(content) =>
        /\ ret.ok
        /\ [k \in 1..Len(ret.file[1].services) |-> ret.file[1].services[k].comments]
              = CommentRuns(content, "service")
        /\ [k \in 1..Len(ret.file[1].messages) |-> ret.file[1].messages[k].comments]
              = CommentRuns(content, "message")
        /\ [k \in 1..Len(ret.file[1].enums) |-> ret.file[1].enums[k].comments]
              = CommentRuns(content, "enum")

\* C21: process_files returns Ok; every path it was given is a key of
\* results or the path of an entry of errors; success_count() +
\* error_count() is the number of paths given.
C21_EveryPathCounted ==
    batch_ret # NotReturned =>
        /\ batch_ret.ok
        /\ \A k \in 1..Len(proto_paths) :
              \/ proto_paths[k] \in DOMAIN results
              \/ \E e \in 1..Len(errors) : errors[e][1] = proto_paths[k]
        /\ batch_ret.success_count + batch_ret.error_count = Len(proto_paths)

\* the canonical paths of the parse_file calls in progress, outermost first
CallsInProgress(st) ==
    LET files == SelectSeq(st, LAMBDA f : IsSome(f.canon))
    IN  [k \in 1..Len(files) |-> files[k].canon[1]]

\* C22: the import chain is at every moment the stack of the parse_file calls
\* in progress, so each call, whatever it returns, leaves the chain as it
\* found it, and the chain is empty when no parse_file call is active.
C22_ChainIsCallStack ==
    /\ import_chain = CallsInProgress(stack)
    /\ stack = <<>> => import_chain = <<>>

\* a parse_file called for an import has pushed its path, failed on the
\* content and returned, with the importing file still in progress
C22_Witness ==
    /\ IsSome(lastCall.res)
    /\ lastCall.res[1].err = "InvalidSyntax"
    /\ lastCall.depth = 2
    /\ import_chain # <<>>

\* the import the innermost activation resolves next, if it resolves one
NextImport ==
    IF /\ stack # <<>>
       /\ Last(stack).abort = None
       /\ Last(stack).idx <= Len(Last(stack).file.imports)
    THEN Some(Last(stack).file.imports[Last(stack).idx])
    ELSE None

\* the include directories, by position, that hold a file of the name
DirsHolding(name) ==
    {k \in 1..Len(include_paths) : fs[<<include_paths[k], name>>].exists}

\* C23: resolving an import outside google/api/ calls parse_file once, for
\* the first include directory in configured order that holds the name, and
\* takes that call's result even when it is a failure; ImportNotFound is the
\* outcome exactly when no include directory holds the name.
C23_FirstExistingDirectory ==
    [][(IsSome(NextImport) /\ ~StartsWithGoogleApi(NextImport[1])) =>
        LET name == NextImport[1]
            dirs == DirsHolding(name)
            first == CHOOSE k \in dirs : \A h \in dirs : k <= h
            logged == IF Len(stack') = Len(stack)
                      THEN Some(Last(Last(stack').log).outcome)
                      ELSE None
        IN  IF dirs = {}
            THEN /\ lastCall' = NoCall
                 /\ logged = Some(Err("ImportNotFound"))
            ELSE /\ lastCall'.canon = Some(<<include_paths[first], name>>)
                 /\ logged = lastCall'.res
                 /\ IsSome(logged) => logged[1].err # "ImportNotFound"]_vars

\* the first directory's copy failed to parse although a later directory
\* holds a copy that parses
C23_Witness ==
    /\ stack # <<>>
    /\ Last(stack).log # <<>>
    /\ Last(Last(stack).log).path = "a.proto"
    /\ Last(Last(stack).log).outcome.err = "InvalidSyntax"
    /\ fs[Shadowed].exists
    /\ lastCall.canon = Some(Join("inc1", "a.proto"))

\* C24: resolving an import under google/api/ looks into no include
\* directory and parses nothing: no parse_file is called, and the cache, the
\* chain and the parse counts stay as they are, whether or not an include
\* directory holds such a file.
C24_GoogleApiSkipped ==
    [][(IsSome(NextImport) /\ NextImport[1] = GoogleApiImport) =>
        /\ lastCall' = NoCall
        /\ import_cache' = import_cache
        /\ import_chain' = import_chain
        /\ runs' = runs
        /\ Len(stack') = Len(stack)
        /\ Last(stack').idx = Last(stack).idx + 1
        /\ Last(Last(stack').log) = [path |-> GoogleApiImport, outcome |-> Skipped]]_vars

\* the import was skipped although the first include directory holds the file
C24_Witness ==
    /\ stack # <<>>
    /\ Last(stack).log # <<>>
    /\ Last(Last(stack).log) = [path |-> GoogleApiImport, outcome |-> Skipped]
    /\ fs[GoogleApiFile].exists
    /\ import_cache[GoogleApiFile] = None

\* verb and body of the primary annotation of a method as the input holds
\* them: those of the http_annotation field, else those written in the
\* message literal of its google.api.http option
PrimaryAnnotation(method) ==
    IF IsSome(method.http_annotation)
    THEN [verb |-> method.http_annotation[1].method.v, body |-> method.http_annotation[1].body]
    ELSE LET value == SelectSeq(method.options, LAMBDA o : o.name = "google.api.http")[1].value
             verbs == FieldsOf(value, VerbKeys)
             bodies == FieldsOf(value, {"body"})
         IN  [verb |-> IF Len(verbs) = 1 THEN VerbMethod(verbs[1][1]).v ELSE "",
              body |-> IF bodies # <<>> /\ Last(bodies)[2].t = "String"
                       THEN Some(Last(bodies)[2].s) ELSE None]

\* where the route of the primary annotation of the k-th method stands
PrimaryRouteAt(ms, k) ==
    1 + Len(ExpectedOwners(SubSeq(ms, 1, k - 1)))

\* C25: the route of a primary annotation with method Post, Put or Patch has
\* a request body with content type application/json: the entire message for
\* body "*" or no body, the named field for any other body string.
C25_BodyOfPostPutPatch ==
    extracted.ok =>
        \A k \in 1..Len(MethodsOf(proto)) :
            LET method == MethodsOf(proto)[k].method
                written == PrimaryAnnotation(method)
                body == extracted.routes[PrimaryRouteAt(MethodsOf(proto), k)].request_body
            IN  (Annotated(method) /\ written.verb \in {"Post", "Put", "Patch"}) =>
                    /\ body # None
                    /\ body[1].content_type = "application/json"
                    /\ (written.body = None \/ written.body = Some(<<"*">>)) =>
                          body[1].field = None /\ body[1].is_entire_message
                    /\ (written.body # None /\ written.body # Some(<<"*">>)) =>
                          body[1].field = written.body /\ ~body[1].is_entire_message

\* a Post without body after a Post that names a field
C25_Witness ==
    /\ extracted.ok
    /\ Len(extracted.routes) = 2
    /\ Len(MethodsOf(proto)) = 2
    /\ IsSome(MethodsOf(proto)[1].method.http_annotation)
    /\ PrimaryAnnotation(MethodsOf(proto)[1].method) = [verb |-> "Post", body |-> Some(FieldName)]
    /\ extracted.routes[1].request_body = Some(BodyField(FieldName))
    /\ IsSome(MethodsOf(proto)[2].method.http_annotation)
    /\ PrimaryAnnotation(MethodsOf(proto)[2].method) = [verb |-> "Post", body |-> None]
    /\ extracted.routes[2].request_body = Some(EntireMessage)

ImportedBy(p) ==
    IF ~ParsesOk(p) THEN {}
    ELSE LET imports == ParseGrammar(fs[p].content, <<>>).file[1].imports
         IN  {canonicalize(FirstHitIn(include_paths, imports[k])[1]) :
                k \in {j \in 1..Len(imports) :
                          /\ ~(imports[j] = GoogleApiImport)
                          /\ IsSome(FirstHitIn(include_paths, imports[j]))}}

RECURSIVE ReachedFrom(_, _)
\* the files reached from the files S through at most n more imports
ReachedFrom(S, n) ==
    IF n = 0 THEN S ELSE ReachedFrom(S \cup UNION {ImportedBy(q) : q \in S}, n - 1)

\* file p imports itself, directly or through other files
InImportCycle(p) == p \in ReachedFrom(ImportedBy(p), Cardinality(CanonPaths))

ImportErrors == {"CircularImport", "ImportNotFound"}

\* C27: no parse_file, parse_content or parse_with_imports call of a user
\* returns CircularImport or ImportNotFound: these errors come up in nested
\* calls only, the parse_content that meets them among its imports returns
\* Ok, and a file in an import cycle parses to Ok.
C27_ImportErrorsStayInside ==
    /\ stack = <<>> => ret.err \notin ImportErrors
    /\ fresh_parser.ret.err \notin ImportErrors
    /\ IsSome(lastCall.res) /\ lastCall.res[1].err \in ImportErrors => lastCall.depth >= 2
    /\ IsSome(lastDone.res) /\ (\E k \in 1..Len(lastDone.log) : lastDone.log[k].outcome.err \in ImportErrors)
         => lastDone.res[1].ok
    /\ \A p \in CanonPaths : InImportCycle(p) =>
         /\ stack = <<>> /\ lastDone.canon = Some(p) => ret.ok
         /\ fresh_parser.canon = Some(p) => fresh_parser.ret.ok

\* a file that imports itself through another file has been parsed by the user
C27_Witness ==
    /\ stack = <<>>
    /\ IsSome(lastDone.canon)
    /\ InImportCycle(lastDone.canon[1])
    /\ ~(lastDone.canon[1] \in ImportedBy(lastDone.canon[1]))
    /\ ret.ok

\* C28: the import cache holds, under the canonical path of a file, the
\* ProtoFile of a parse of it that succeeded, and nothing else; a parse_file
\* call that fails leaves the cache as it was, so a file the grammar rejects
\* is parsed again by every parse_file call that reaches it.
C28_OnlySuccessesCached ==
    [][/\ \A p \in CanonPaths : IsSome(import_cache'[p]) =>
            /\ ParsesOk(p)
            /\ import_cache'[p] = ParseGrammar(fs[p].content, <<>>).file
       /\ IsSome(lastCall'.res) /\ ~lastCall'.res[1].ok => import_cache' = import_cache
       /\ IsSome(lastDone'.res) /\ ~lastDone'.res[1].ok => import_cache' = import_cache
       /\ \A p \in CanonPaths :
            lastCall'.canon = Some(p) /\ fs[p].exists /\ ~ParsesOk(p) =>
                lastCall'.res = Some(Err("InvalidSyntax"))]_vars

\* a file the grammar rejects is imported a second time and parsed again
C28_Witness ==
    /\ stack # <<>>
    /\ IsSome(lastCall.res)
    /\ lastCall.res[1].err = "InvalidSyntax"
    /\ import_cache[lastCall.canon[1]] = None
    /\ Len(Last(stack).log) = 2
    /\ Last(stack).log[1].path = Last(stack).log[2].path
    /\ Last(stack).log[1].outcome.err = "InvalidSyntax"
    /\ Last(stack).log[2].outcome.err = "InvalidSyntax"

\* C29: a parse_with_imports call leaves the cache and the chain of the parser
\* it is called on as they were and does not consult them: the file is parsed
\* whether or not that parser has it cached, on a parser that ends with an
\* empty chain, and a call repeated on the same path parses every file again.
C29_FreshParserEachCall ==
    [][fresh_parser'.called =>
        LET p == fresh_parser'.canon[1]
            on == fresh_parser'.on
        IN  /\ import_cache' = import_cache
            /\ import_chain' = import_chain
            /\ runs' = runs
            /\ ret' = fresh_parser'.ret
            /\ on.import_chain = <<>>
            /\ on.parses[p] = IF fs[p].exists THEN 1 ELSE 0
            /\ ret'.ok = ParsesOk(p)
            /\ \A q \in CanonPaths : IsSome(on.import_cache[q]) => on.parses[q] = 1
            /\ fresh_parser.called /\ fresh_parser.canon = Some(p) =>
                 on.parses = fresh_parser.on.parses]_vars

\* parse_with_imports has parsed a file and a file it imports, both of them
\* cached by the parser it was called on
C29_Witness ==
    /\ fresh_parser.called
    /\ IsSome(import_cache[fresh_parser.canon[1]])
    /\ fresh_parser.on.parses[fresh_parser.canon[1]] = 1
    /\ \E q \in CanonPaths :
         /\ ~(q = fresh_parser.canon[1])
         /\ IsSome(import_cache[q])
         /\ fresh_parser.on.parses[q] = 1

\* the rule a rejection message of either validate_path_template names
ViolationKind(message) ==
    CASE message \in {"Empty path template", "Path template cannot be empty"} -> "empty"
      [] message = "Path template must start with '/'" -> "no leading slash"
      [] message \in {"Nested braces are not allowed in path template",
                      "Nested braces are not allowed in path templates"} -> "nested braces"
      [] message = "Unmatched closing brace in path template" -> "unmatched closing brace"
      [] message = "Unmatched opening brace in path template" -> "unmatched opening brace"
      [] OTHER -> message

\* C30: GoogleApiHttpExtractor::validate_path_template and
\* ValidationEngine::validate_path_template accept the same templates and
\* reject every other one with InvalidHttpAnnotation for the same rule, and in
\* both loops brace_count is 0 or 1 after every character that is not rejected.
C30_ValidatorsAgree ==
    /\ checked # NotChecked /\ engine_checked # NotChecked =>
        /\ checked.ok = engine_checked.ok
        /\ checked.err = engine_checked.err
        /\ ViolationKind(checked.message) = ViolationKind(engine_checked.message)
        /\ ~checked.ok => ViolationKind(checked.message) # checked.message
    /\ \A k \in 1..Len(brace_counts.extractor) : brace_counts.extractor[k] \in {0, 1}
    /\ \A k \in 1..Len(brace_counts.engine) : brace_counts.engine[k] \in {0, 1}

\* both reject a closing brace that follows a closed parameter
C30_Witness ==
    /\ ~checked.ok
    /\ ~engine_checked.ok
    /\ checked.message = "Unmatched closing brace in path template"
    /\ engine_checked.message = "Unmatched closing brace in path template"
    /\ \E k \in 1..Len(brace_counts.extractor) : brace_counts.extractor[k] = 1
    /\ \E k \in 1..Len(brace_counts.engine) : brace_counts.engine[k] = 1

====
